---- MODULE Spec2Model ----
(***************************************************************************)
(* A model of the dulwich merge add-ons: the merge-base search of          *)
(* graph_fixed.py, the diff3 file merge of diff3merge.py and the tree      *)
(* merge and its orchestration of merge.py.                                *)
(***************************************************************************)
EXTENDS Integers, Sequences, FiniteSets, TLC

(***************************************************************************)
(* Bounds of the commit graphs explored.                                   *)
(***************************************************************************)
NumCommits == 4
MaxStamp == 2
MaxParents == 2

Commits == 1..NumCommits
Stamps == 0..MaxStamp

(***************************************************************************)
(* Bounds of the files merged: the number of lines of the ancestor and of  *)
(* alice and bob.  A line is modelled by its text, the line end included.  *)
(***************************************************************************)
MaxBaseLines == 2
MaxSideLines == 3
LineTexts == {"x", "y"}

Strategies == {"ort", "ort-ours", "ort-theirs", "resolve", "resolve-ours", "resolve-theirs"}

(***************************************************************************)
(* graph_fixed.py: the state flags of _find_lcas.  A flag word is modelled *)
(* as the set of its bits: & is intersection, | is union.                  *)
(***************************************************************************)
ANC_OF_1 == 1
ANC_OF_2 == 2
DNC == 4
LCA == 8

VARIABLES
    parents,     \* the repository: commit -> list of parent commits
    stamp,       \* the repository: commit -> commit_time
    commit_ids,  \* the argument list of the running graph operation
    op,          \* the graph entry point that is running
    pc,          \* position of the graph operation: start, search, done
    min_stamp,   \* _find_lcas: min_stamp
    wlst,        \* _find_lcas: the working list of (stamp, commit)
    cstates,     \* _find_lcas: commit -> flags (the empty set: not in cstates)
    cands,       \* _find_lcas: the candidate list of (stamp, commit)
    lcas,        \* the list returned by _find_lcas / find_merge_base
    ff,          \* the value returned by can_fast_forward
    o_lines,     \* Merge3Way: the lines of the ancestor
    a_lines,     \* Merge3Way: the lines of alice
    b_lines,     \* Merge3Way: the lines of bob
    a_matches,   \* Merge3Way: ancestor line number -> alice line number
    b_matches,   \* Merge3Way: ancestor line number -> bob line number
    strategy,    \* Merge3Way: the merge strategy
    cursor,      \* Merge3Way: (on, an, bn)
    chunks,      \* Merge3Way: the chunks written so far
    conflicts,   \* Merge3Way: the conflict list
    w_ranges,    \* the ranges handed to the running (last) _write_chunk
    branch,      \* the branch of _generate_chunks that wrote the last chunk
    dpc,         \* position of the file merge: idle, call, walk, done, returned
    fm_args,     \* do_file_merge_*: alice, bob, ancestor, strategy and the diff type
    fm_result,   \* do_file_merge_*: the (res, conflicts) returned
    entry_args,  \* _merge_entry: moptions, new_path and the three entries
    entry_result,\* _merge_entry: the entry and the conflicts returned
    epc,         \* position of _merge_entry: idle, call, returned
    repo,        \* the object store: commit id -> commit (tree, parents, commit_time)
    trees,       \* the object store: the trees it holds
    blobs,       \* the object store: the blobs it holds
    merge_ids,   \* merge: the argument commit_ids
    moptions,    \* merge: the MergeOptions (file_merger, strategy)
    now,         \* the clock that stamps the commits made by do_commit
    mpc,         \* position of merge: idle, start, walk, write, cleanup, done, raised
    merge_lcas,  \* merge: lcas
    merge_base,  \* merge: merge_base
    vcommits,    \* merge: the virtual commits made so far
    tree_ids,    \* merge: this_tree_id, other_tree_id, base_tree_id
    mrg_results, \* merge: the MergeResults object
    worktree,    \* the files built, the paths staged and the index conflicts set
    other_call   \* a second call of merge on the same object store: its
                 \* arguments, its locals and its position

graph_vars == <<parents, stamp, commit_ids, op, pc, min_stamp, wlst, cstates,
                cands, lcas, ff>>

diff3_vars == <<o_lines, a_lines, b_lines, a_matches, b_matches, strategy,
                cursor, chunks, conflicts, w_ranges, branch, dpc>>

merge_vars == <<repo, trees, blobs, merge_ids, moptions, now, mpc, merge_lcas,
                merge_base, vcommits, tree_ids, mrg_results, worktree, other_call>>

filemerge_vars == <<fm_args, fm_result>>

entry_vars == <<entry_args, entry_result, epc>>

vars == <<graph_vars, diff3_vars, merge_vars, filemerge_vars, entry_vars>>

(***************************************************************************)
(* Sequence helpers.                                                       *)
(***************************************************************************)
Range(s) == {s[i] : i \in 1..Len(s)}

RemoveAt(s, i) == SubSeq(s, 1, i - 1) \o SubSeq(s, i + 1, Len(s))

Reverse(s) == [i \in 1..Len(s) |-> s[Len(s) + 1 - i]]

\* the lists of at most n distinct elements of S
DistinctSeqs(S, n) ==
    UNION {{s \in [1..k -> S] : \A i, j \in 1..k : i # j => s[i] # s[j]} : k \in 0..n}

\* the lists of at most n elements of S
SeqsUpTo(S, n) == UNION {[1..k -> S] : k \in 0..n}

(***************************************************************************)
(* The commit graphs: every finite DAG can be numbered so that parents     *)
(* carry smaller numbers than their children; the order of a parent list   *)
(* is free, and the time stamps are unrelated to the parent relation.      *)
(***************************************************************************)
CommitGraphs ==
    {f \in [Commits -> DistinctSeqs(Commits, MaxParents)] :
        \A c \in Commits : \A i \in 1..Len(f[c]) : f[c][i] < c}

RECURSIVE AncestorsOrSelf(_, _)
AncestorsOrSelf(par, c) ==
    {c} \cup UNION {AncestorsOrSelf(par, par[c][i]) : i \in 1..Len(par[c])}

IsAncestorOrSelf(par, a, c) == a \in AncestorsOrSelf(par, c)

IsStrictAncestor(par, a, c) == a # c /\ a \in AncestorsOrSelf(par, c)

(***************************************************************************)
(* plist_get: the index popped is the first one that carries the greatest  *)
(* stamp of the list.                                                      *)
(***************************************************************************)
plist_index(lst) ==
    CHOOSE i \in 1..Len(lst) :
        /\ \A j \in 1..Len(lst) : lst[j][1] <= lst[i][1]
        /\ \A j \in 1..(i - 1) : lst[j][1] < lst[i][1]

plist_get(lst) ==
    [item |-> lst[plist_index(lst)], rest |-> RemoveAt(lst, plist_index(lst))]

(***************************************************************************)
(* _find_lcas                                                              *)
(***************************************************************************)
has_candidates(wl, cs) ==
    \E k \in 1..Len(wl) : cs[wl[k][2]] # {} /\ DNC \notin cs[wl[k][2]]

\* lines 55-61: the working list and the states at the start of the loop
RECURSIVE mark_c2s(_, _, _)
mark_c2s(c2s, stm, s) ==
    IF c2s = <<>> THEN s
    ELSE LET c2 == Head(c2s)
         IN mark_c2s(Tail(c2s), stm,
                [s EXCEPT !.cstates[c2] = @ \cup {ANC_OF_2},
                          !.wlst = Append(@, <<stm[c2], c2>>)])

find_lcas_init(par, stm, c1, c2s) ==
    mark_c2s(c2s, stm,
        [cstates |-> [c \in DOMAIN par |-> IF c = c1 THEN {ANC_OF_1} ELSE {}],
         wlst |-> <<<<stm[c1], c1>>>>,
         cands |-> <<>>])

\* a loop that hands every parent on, whatever flags it carries already
RECURSIVE visit_parents_anew(_, _, _, _, _)
visit_parents_anew(ps, cflags, stm, mins, s) ==
    IF ps = <<>> THEN s
    ELSE LET pcmt == Head(ps)
             pflags == s.cstates[pcmt]
             pdt == stm[pcmt]
         IN IF pdt < mins
            THEN visit_parents_anew(Tail(ps), cflags, stm, mins, s)
            ELSE visit_parents_anew(Tail(ps), cflags, stm, mins,
                    [s EXCEPT !.cstates[pcmt] = pflags \cup cflags,
                              !.wlst = Append(@, <<pdt, pcmt>>)])

\* lines 78-90: the loop over the parents of the popped commit
RECURSIVE visit_parents(_, _, _, _, _)
visit_parents(ps, cflags, stm, mins, s) ==
    IF ps = <<>> THEN s
    ELSE LET pcmt == Head(ps)
             pflags == s.cstates[pcmt]
             pdt == stm[pcmt]
         IN IF cflags \subseteq pflags \/ pdt < mins
            THEN visit_parents(Tail(ps), cflags, stm, mins, s)
            ELSE visit_parents(Tail(ps), cflags, stm, mins,
                    [s EXCEPT !.cstates[pcmt] = pflags \cup cflags,
                              !.wlst = Append(@, <<pdt, pcmt>>)])

\* the parents to which the flags of a popped commit are handed on
parents_to_visit(par, cmt) == par[cmt]

\* line 70: the popped commit is an ancestor of both sides, not yet barred
is_common_any(cflags) == ANC_OF_2 \in cflags

is_common(cflags) == cflags = {ANC_OF_1, ANC_OF_2}

\* lines 66-90: one iteration of the loop
find_lcas_step(par, stm, mins, s) ==
    LET got == plist_get(s.wlst)
        dt == got.item[1]
        cmt == got.item[2]
        cflags == s.cstates[cmt] \cap {ANC_OF_1, ANC_OF_2, DNC}
        common == is_common(cflags)
        fresh == common /\ LCA \notin s.cstates[cmt]
        s1 == [cstates |-> IF fresh THEN [s.cstates EXCEPT ![cmt] = @ \cup {LCA}]
                           ELSE s.cstates,
               wlst |-> got.rest,
               cands |-> IF fresh THEN Append(s.cands, <<dt, cmt>>) ELSE s.cands]
        cflags1 == IF common THEN cflags \cup {DNC} ELSE cflags
    IN visit_parents(parents_to_visit(par, cmt), cflags1, stm, mins, s1)

\* lines 95-98: the candidates that are not superseded, without duplicates
RECURSIVE final_candidates(_, _, _)
final_candidates(cs, cnds, results) ==
    IF cnds = <<>> THEN results
    ELSE LET e == Head(cnds)
         IN final_candidates(cs, Tail(cnds),
                IF DNC \notin cs[e[2]] /\ e \notin Range(results)
                THEN Append(results, e) ELSE results)

\* line 99: list.sort(key = stamp) is stable
RECURSIVE insert_by_stamp(_, _)
insert_by_stamp(e, sorted) ==
    IF sorted = <<>> THEN <<e>>
    ELSE IF Head(sorted)[1] <= e[1]
         THEN <<Head(sorted)>> \o insert_by_stamp(e, Tail(sorted))
         ELSE <<e>> \o sorted

RECURSIVE sort_by_stamp(_)
sort_by_stamp(s) ==
    IF s = <<>> THEN <<>>
    ELSE insert_by_stamp(s[Len(s)], sort_by_stamp(SubSeq(s, 1, Len(s) - 1)))

\* lines 95-101
superseded_removed(cs, cnds) == final_candidates(cs, cnds, <<>>)

find_lcas_results(s) ==
    LET results == sort_by_stamp(superseded_removed(s.cstates, s.cands))
    IN [i \in 1..Len(results) |-> results[i][2]]

RECURSIVE find_lcas_run(_, _, _, _)
find_lcas_run(par, stm, mins, s) ==
    IF has_candidates(s.wlst, s.cstates)
    THEN find_lcas_run(par, stm, mins, find_lcas_step(par, stm, mins, s))
    ELSE find_lcas_results(s)

find_lcas(par, stm, c1, c2s, mins) ==
    find_lcas_run(par, stm, mins, find_lcas_init(par, stm, c1, c2s))

(***************************************************************************)
(* diff3merge.py: the line matchers.  A matcher (myers_diff, histdiff,     *)
(* ndiff) hands a stream of lines tagged "  " (in both), "+ " (only in the *)
(* other file) or "- " (only in the ancestor).                             *)
(***************************************************************************)
\* every token stream that is a diff of olines and dlines
RECURSIVE DiffScripts(_, _)
DiffScripts(olines, dlines) ==
    IF olines = <<>> /\ dlines = <<>> THEN {<<>>}
    ELSE (IF olines # <<>> /\ dlines # <<>> /\ Head(olines) = Head(dlines)
          THEN {<<"  ">> \o t : t \in DiffScripts(Tail(olines), Tail(dlines))}
          ELSE {})
         \cup (IF olines # <<>>
               THEN {<<"- ">> \o t : t \in DiffScripts(Tail(olines), dlines)}
               ELSE {})
         \cup (IF dlines # <<>>
               THEN {<<"+ ">> \o t : t \in DiffScripts(olines, Tail(dlines))}
               ELSE {})

\* _myers_matches, lines 183-195 (the same loop as lines 150-172 and 206-219)
RECURSIVE token_walk(_, _, _, _)
token_walk(tokens, on, dn, matches) ==
    IF tokens = <<>> THEN matches
    ELSE LET dt == Head(tokens)
         IN IF dt = "  "
            THEN token_walk(Tail(tokens), on + 1, dn + 1,
                            ((on + 1) :> (dn + 1)) @@ matches)
            ELSE IF dt = "+ " THEN token_walk(Tail(tokens), on, dn + 1, matches)
            ELSE IF dt = "- " THEN token_walk(Tail(tokens), on + 1, dn, matches)
            ELSE token_walk(Tail(tokens), on, dn, matches)

\* the loop started with the ancestor counter one ahead
matches_of_shifted(tokens) == token_walk(tokens, 1, 0, <<>>)

matches_of(tokens) == token_walk(tokens, 0, 0, <<>>)

\* the correspondences a matcher may hand out for olines and dlines
Correspondences(olines, dlines) == {matches_of(t) : t \in DiffScripts(olines, dlines)}

(***************************************************************************)
(* diff3merge.py: Merge3Way.  m is the object: its lines, matches,         *)
(* strategy, cursor (on, an, bn), chunks and conflicts.                    *)
(***************************************************************************)
\* lines[lo:hi] of Python: 0-based, half open, cut at the end of the list
PySlice(lines, range) ==
    SubSeq(lines, range[1] + 1, IF range[2] < Len(lines) THEN range[2] ELSE Len(lines))

\* b''.join(list of chunks)
RECURSIVE Join(_)
Join(cs) == IF cs = <<>> THEN <<>> ELSE Head(cs) \o Join(Tail(cs))

MarkAlice == "<<<<<<<<< alice"
MarkAncestor == "||||||||| ancestor"
MarkSeparator == "========= "
MarkBob == ">>>>>>>>> bob"

\* lines 308-314
conflict_markup(oc, ac, bc) ==
    <<MarkAlice>> \o ac \o <<MarkAncestor>> \o oc \o <<MarkSeparator>> \o bc \o <<MarkBob>>

\* _inbounds, lines 242-250
inbounds(m, i) ==
    \/ m.cursor[1] + i <= Len(m.o_lines)
    \/ m.cursor[2] + i <= Len(m.a_lines)
    \/ m.cursor[3] + i <= Len(m.b_lines)

\* _ismatch, lines 252-257
ismatch(m, matchdict, offset, i) ==
    /\ (m.cursor[1] + i) \in DOMAIN matchdict
    /\ matchdict[m.cursor[1] + i] = offset + i

\* _find_next_mismatch, lines 259-268: 0 stands for None
RECURSIVE mismatch_from(_, _)
mismatch_from(m, i) ==
    IF /\ inbounds(m, i)
       /\ ismatch(m, m.a_matches, m.cursor[2], i)
       /\ ismatch(m, m.b_matches, m.cursor[3], i)
    THEN mismatch_from(m, i + 1)
    ELSE IF inbounds(m, i) THEN i ELSE 0

find_next_mismatch(m) == mismatch_from(m, 1)

\* _find_next_match, lines 270-284: 0 stands for None
RECURSIVE match_from(_, _)
match_from(m, ov) ==
    IF ov > Len(m.o_lines) THEN ov
    ELSE IF ov \in DOMAIN m.a_matches /\ ov \in DOMAIN m.b_matches THEN ov
    ELSE match_from(m, ov + 1)

find_next_match(m) ==
    LET ov == match_from(m, m.cursor[1] + 1)
    IN <<ov,
         IF ov \in DOMAIN m.a_matches THEN m.a_matches[ov] ELSE 0,
         IF ov \in DOMAIN m.b_matches THEN m.b_matches[ov] ELSE 0>>

\* lines 291-298: the chunk written when at most one side changed, or both
\* sides changed alike
resolved_chunk_swapped(oc, ac, bc) ==
    IF oc = ac /\ oc = bc THEN oc
    ELSE IF oc = ac THEN ac
    ELSE IF oc = bc THEN bc
    ELSE ac

resolved_chunk(oc, ac, bc) ==
    IF oc = ac /\ oc = bc THEN oc
    ELSE IF oc = ac THEN bc
    ELSE IF oc = bc THEN ac
    ELSE ac

\* lines 299-315: the chunk written when the three texts differ pairwise
conflict_chunk_no_ancestor(oc, ac, bc) ==
    <<MarkAlice>> \o ac \o <<MarkSeparator>> \o bc \o <<MarkBob>>

conflict_chunk(oc, ac, bc) == conflict_markup(oc, ac, bc)

\* _write_chunk with the test of line 301 failing for every strategy
write_chunk_ours_unresolved(m, o_range, a_range, b_range) ==
    LET oc == PySlice(m.o_lines, o_range)
        ac == PySlice(m.a_lines, a_range)
        bc == PySlice(m.b_lines, b_range)
    IN IF oc = ac \/ oc = bc \/ ac = bc
       THEN [m EXCEPT !.chunks = Append(@, resolved_chunk(oc, ac, bc))]
       ELSE IF m.strategy \in {"ort-theirs", "resolve-theirs"}
       THEN [m EXCEPT !.chunks = Append(@, bc)]
       ELSE [m EXCEPT !.conflicts = Append(@, <<o_range, a_range, b_range>>),
                      !.chunks = Append(@, conflict_chunk(oc, ac, bc))]

\* _write_chunk, lines 286-315
write_chunk(m, o_range, a_range, b_range) ==
    LET oc == PySlice(m.o_lines, o_range)
        ac == PySlice(m.a_lines, a_range)
        bc == PySlice(m.b_lines, b_range)
    IN IF oc = ac \/ oc = bc \/ ac = bc
       THEN [m EXCEPT !.chunks = Append(@, resolved_chunk(oc, ac, bc))]
       ELSE IF m.strategy \in {"ort-ours", "resolve-ours"}
       THEN [m EXCEPT !.chunks = Append(@, ac)]
       ELSE IF m.strategy \in {"ort-theirs", "resolve-theirs"}
       THEN [m EXCEPT !.chunks = Append(@, bc)]
       ELSE [m EXCEPT !.conflicts = Append(@, <<o_range, a_range, b_range>>),
                      !.chunks = Append(@, conflict_chunk(oc, ac, bc))]

\* the ranges of a chunk were they to take in the line the next chunk starts with
emit_ranges_through(m, o, a, b) ==
    <<<<m.cursor[1], o>>, <<m.cursor[2], a>>, <<m.cursor[3], b>>>>

\* the ranges _emit_chunk hands to _write_chunk, lines 319-321
emit_ranges(m, o, a, b) ==
    <<<<m.cursor[1], o - 1>>, <<m.cursor[2], a - 1>>, <<m.cursor[3], b - 1>>>>

\* _emit_chunk, lines 317-322
emit_chunk(m, o, a, b) ==
    LET r == emit_ranges(m, o, a, b)
    IN [write_chunk(m, r[1], r[2], r[3]) EXCEPT !.cursor = <<o - 1, a - 1, b - 1>>]

\* the ranges of the last chunk were they taken from the start of the files
final_ranges_from_start(m) ==
    <<<<0, Len(m.o_lines) + 1>>, <<0, Len(m.a_lines) + 1>>, <<0, Len(m.b_lines) + 1>>>>

\* the ranges _emit_final_chunk hands to _write_chunk, lines 326-328
final_ranges(m) ==
    <<<<m.cursor[1], Len(m.o_lines) + 1>>,
      <<m.cursor[2], Len(m.a_lines) + 1>>,
      <<m.cursor[3], Len(m.b_lines) + 1>>>>

\* _emit_final_chunk, lines 324-328
emit_final_chunk(m) ==
    LET r == final_ranges(m)
    IN write_chunk(m, r[1], r[2], r[3])

\* the branch one iteration of _generate_chunks takes, lines 228-240
chunk_branch(m) ==
    LET i == find_next_mismatch(m)
        nm == find_next_match(m)
    IN IF i = 0 THEN "final"
       ELSE IF i = 1 THEN (IF nm[2] # 0 /\ nm[3] # 0 THEN "unstable" ELSE "final")
       ELSE "stable"

\* Merge3Way.__init__, lines 112-131
merge3way(alice, bob, ancestor, am, bm, strat) ==
    [o_lines |-> ancestor, a_lines |-> alice, b_lines |-> bob,
     a_matches |-> am, b_matches |-> bm, strategy |-> strat,
     cursor |-> <<0, 0, 0>>, chunks |-> <<>>, conflicts |-> <<>>]

\* _generate_chunks, lines 227-240
RECURSIVE generate_chunks(_)
generate_chunks(m) ==
    LET i == find_next_mismatch(m)
        nm == find_next_match(m)
        br == chunk_branch(m)
    IN IF br = "final" THEN emit_final_chunk(m)
       ELSE IF br = "unstable" THEN generate_chunks(emit_chunk(m, nm[1], nm[2], nm[3]))
       ELSE generate_chunks(emit_chunk(m, m.cursor[1] + i, m.cursor[2] + i, m.cursor[3] + i))

(***************************************************************************)
(* merge.py: the objects.  Ids are content addresses, so a blob stands for *)
(* its id and is modelled by its lines, and a tree stands for its id and   *)
(* is modelled by what it holds at each path.  The id of a commit read     *)
(* from the repository is <<k>>; the id of a commit made by do_commit is   *)
(* made of its message, parents, tree and time.  Trees are flat and their  *)
(* entries are regular files; blobs are not empty.                         *)
(***************************************************************************)
NumMergeCommits == 3
PathNames == <<"a", "b">>
BlobTexts == <<"x", "y", "z">>
RegularFile == "100644"
MergeStrategies == {"ort", "ort-ours", "resolve-theirs", "octopus"}
FileMergers == {"myers"}

None == "None"
NoSha == <<None>>
NoCommit == <<>>
Paths == Range(PathNames)

TreeEntry(path, mode, sha) == [path |-> path, mode |-> mode, sha |-> sha]

\* line 63; dulwich's _NULL_ENTRY is the same tuple
NO_ENTRY == TreeEntry(None, None, NoSha)

\* lines 201 and 475: entry.path and entry.mode and entry.sha
is_entry(entry) == entry.path # None /\ entry.mode # None /\ entry.sha # NoSha

\* line 53
MergeConflict(conflict_type, this_entry, other_entry, base_entry, message) ==
    [conflict_type |-> conflict_type, this_entry |-> this_entry,
     other_entry |-> other_entry, base_entry |-> base_entry, message |-> message]

\* what a tree holds at a path without entry
NoFile == [mode |-> None, sha |-> NoSha]

EmptyTree == [p \in Paths |-> NoFile]

\* the index of the last element of s that passes Test, 0 if there is none
LastIndex(s, Test(_)) ==
    LET hits == {i \in 1..Len(s) : Test(s[i])}
    IN IF hits = {} THEN 0 ELSE CHOOSE i \in hits : \A j \in hits : j <= i

\* tree_entry_iterator, lines 67-73: the entries of a tree in path order
RECURSIVE entries_from(_, _)
entries_from(tree, i) ==
    IF i > Len(PathNames) THEN <<>>
    ELSE LET p == PathNames[i]
         IN (IF tree[p] = NoFile THEN <<>>
             ELSE <<TreeEntry(p, tree[p].mode, tree[p].sha)>>)
            \o entries_from(tree, i + 1)

tree_entry_iterator(treeid) == entries_from(treeid, 1)

\* a dict path -> (mode, sha) filled from a list of entries: the last entry
\* of a path stays (lines 112-115 and 122-125)
path_dict(entries) ==
    [p \in Paths |->
        LET i == LastIndex(entries, LAMBDA e : e.path = p)
        IN IF i = 0 THEN NoFile
           ELSE [mode |-> entries[i].mode, sha |-> entries[i].sha]]

\* create_and_store_merged_tree, lines 76-117: the id of the tree built
create_and_store_merged_tree(merged_tree) == path_dict(merged_tree)

\* _updated_tree_entries_with_changes, lines 120-132
updated_tree_entries_only_changes(this_tree_id, updated_tree_entries) ==
    tree_entry_iterator(path_dict(updated_tree_entries))

updated_tree_entries_with_changes(this_tree_id, updated_tree_entries) ==
    tree_entry_iterator(path_dict(tree_entry_iterator(this_tree_id) \o updated_tree_entries))

(***************************************************************************)
(* dulwich.diff_tree.tree_changes as merge_tree calls it (lines 289, 292): *)
(* no rename detector, so the changes are adds, deletes and modifies, in   *)
(* path order.  An absent side of a change is the null entry.              *)
(***************************************************************************)
CHANGE_ADD == "add"
CHANGE_COPY == "copy"
CHANGE_DELETE == "delete"
CHANGE_MODIFY == "modify"
CHANGE_RENAME == "rename"
CHANGE_UNCHANGED == "unchanged"

TreeChange(type, old, new) == [type |-> type, old |-> old, new |-> new]

\* this_change is None
NoChange == TreeChange(None, NO_ENTRY, NO_ENTRY)

entry_at(tree, p) ==
    IF tree[p] = NoFile THEN NO_ENTRY ELSE TreeEntry(p, tree[p].mode, tree[p].sha)

RECURSIVE tree_changes_from(_, _, _)
tree_changes_from(tree1, tree2, i) ==
    IF i > Len(PathNames) THEN <<>>
    ELSE LET old == entry_at(tree1, PathNames[i])
             new == entry_at(tree2, PathNames[i])
         IN (IF old = new THEN <<>>
             ELSE IF old = NO_ENTRY THEN <<TreeChange(CHANGE_ADD, old, new)>>
             ELSE IF new = NO_ENTRY THEN <<TreeChange(CHANGE_DELETE, old, new)>>
             ELSE <<TreeChange(CHANGE_MODIFY, old, new)>>)
            \o tree_changes_from(tree1, tree2, i + 1)

tree_changes(tree1_id, tree2_id) == tree_changes_from(tree1_id, tree2_id, 1)

(***************************************************************************)
(* The file merger handed to merge in MergeOptions.                        *)
(***************************************************************************)
\* _myers_matches, lines 174-195: myers_diff hands a shortest edit script,
\* one that keeps as many lines as any other
myers_matches(olines, dlines) ==
    CHOOSE m \in Correspondences(olines, dlines) :
        \A m2 \in Correspondences(olines, dlines) :
            Cardinality(DOMAIN m2) <= Cardinality(DOMAIN m)

\* do_file_merge_myers, lines 42-47; the ancestor is not empty (line 42)
merged_file(mrg3) == [merged_text |-> Join(mrg3.chunks), conflict_list |-> mrg3.conflicts]

do_file_merge_myers(alice, bob, ancestor, strat) ==
    merged_file(generate_chunks(merge3way(alice, bob, ancestor,
                    myers_matches(ancestor, alice), myers_matches(ancestor, bob), strat)))

\* dulwich.patch.is_binary: the content holds a NUL byte
BinaryLine == "\\0"
is_binary(content) == BinaryLine \in Range(content)

(***************************************************************************)
(* merge.py: merge_tree.  What the generator yields is a record: the       *)
(* entry, the conflicts, the blobs added to the object store on the way,   *)
(* and whether an exception left the generator instead.                    *)
(***************************************************************************)
Yielded(entry, cnfs, added) ==
    [entry |-> entry, conflicts |-> cnfs, blobs |-> added, raised |-> FALSE]

Raised == [entry |-> NO_ENTRY, conflicts |-> <<>>, blobs |-> {}, raised |-> TRUE]

\* lines 242-254: one of the three files is binary
merge_binary_entry(mopts, this_entry, other_entry, base_entry) ==
    IF this_entry.sha # other_entry.sha
    THEN IF mopts.strategy = "ort-ours"
         THEN Yielded(TreeEntry(this_entry.path, this_entry.mode, this_entry.sha), <<>>, {})
         ELSE IF mopts.strategy = "ort-theirs"
         THEN Yielded(TreeEntry(other_entry.path, other_entry.mode, other_entry.sha), <<>>, {})
         ELSE Yielded(NO_ENTRY,
                <<MergeConflict("structure", this_entry, other_entry, base_entry,
                    <<"3 way diff and merge of binary files not supported", this_entry.path>>)>>,
                {})
    ELSE Yielded(TreeEntry(this_entry.path, this_entry.mode, this_entry.sha), <<>>, {})

\* lines 258-274: fm is what the file merger handed back
merged_text_entry(new_path, this_entry, other_entry, base_entry, fm) ==
    LET chunk_conflicts ==
            [k \in 1..Len(fm.conflict_list) |->
                MergeConflict("chunk", this_entry, other_entry, base_entry,
                    <<new_path, " in line ranges ", fm.conflict_list[k]>>)]
    IN IF this_entry.mode \in {base_entry.mode, other_entry.mode}
       THEN Yielded(TreeEntry(new_path, other_entry.mode, fm.merged_text),
                    chunk_conflicts, {fm.merged_text})
       ELSE IF base_entry.mode # other_entry.mode
       THEN Yielded(NO_ENTRY,
                <<MergeConflict("ni", this_entry, other_entry, base_entry,
                    <<"tree entry mode changes are not supported">>)>>,
                {fm.merged_text})
       ELSE Yielded(TreeEntry(new_path, this_entry.mode, fm.merged_text),
                    chunk_conflicts, {fm.merged_text})

\* lines 256-257: the three files are text
merge_text_entry(mopts, new_path, this_entry, other_entry, base_entry) ==
    merged_text_entry(new_path, this_entry, other_entry, base_entry,
        do_file_merge_myers(this_entry.sha, other_entry.sha, base_entry.sha,
                            mopts.strategy))

\* _merge_entry, lines 215-274; line 234 reads other_entry.old, which a
\* TreeEntry does not have: AttributeError
merge_entry(mopts, new_path, this_entry, other_entry, base_entry) ==
    IF this_entry.sha = other_entry.sha THEN Yielded(this_entry, <<>>, {})
    ELSE IF mopts.file_merger = None THEN Raised
    ELSE IF is_binary(this_entry.sha) \/ is_binary(other_entry.sha)
            \/ is_binary(base_entry.sha)
    THEN merge_binary_entry(mopts, this_entry, other_entry, base_entry)
    ELSE merge_text_entry(mopts, new_path, this_entry, other_entry, base_entry)

\* a dict is modelled by the list of its (key, value) items in the order
\* they were set: the last item of a key is its value
has_key(items, k) == LastIndex(items, LAMBDA kv : kv[1] = k) # 0

dict_get(items, k) ==
    LET i == LastIndex(items, LAMBDA kv : kv[1] = k)
    IN IF i = 0 THEN NoChange ELSE items[i][2]

\* line 290: the null entry is a non-empty tuple, so `if change.old` holds
\* for every change, and the adds are all filed under the key None
changes_this_by_common_path(changes_this) ==
    [i \in 1..Len(changes_this) |-> <<changes_this[i].old.path, changes_this[i]>>]

\* tree_changes is a generator function and changes_this is the generator
\* it returned: line 290 has run through it, nothing is left of it
exhausted(changes) == SubSeq(changes, Len(changes) + 1, Len(changes))

\* line 291
changes_this_by_this_path(changes_this) ==
    LET left == exhausted(changes_this)
    IN [i \in 1..Len(left) |-> <<left[i].new.path, left[i]>>]

\* lines 298-308
merge_added(by_this_path, other_change) ==
    IF ~has_key(by_this_path, other_change.new.path)
    THEN <<Yielded(TreeEntry(other_change.new.path, other_change.new.mode,
                             other_change.new.sha), <<>>, {})>>
    ELSE LET this_entry == dict_get(by_this_path, other_change.new.path)
         IN IF this_entry # other_change.new
            THEN <<Yielded(NO_ENTRY,
                    <<MergeConflict("structure", this_entry, other_change.new,
                        other_change.old,
                        <<"Both this and other add new file", other_change.new.path>>)>>,
                    {})>>
            ELSE <<>>

\* the deletion by other taken whatever this did to the path
merge_deleted_unchecked(this_change, other_change) ==
    <<Yielded(TreeEntry(other_change.old.path, None, NoSha), <<>>, {})>>

\* lines 310-317
merge_deleted(this_change, other_change) ==
    IF this_change # NoChange /\ this_change.type \notin {CHANGE_DELETE, CHANGE_UNCHANGED}
    THEN <<Yielded(NO_ENTRY,
            <<MergeConflict("structure", this_change.new, other_change.new,
                other_change.old,
                <<"is deleted in other but modified in this", other_change.old.path>>)>>,
            {})>>
    ELSE <<Yielded(TreeEntry(other_change.old.path, None, NoSha), <<>>, {})>>

\* lines 345-358; line 355 reads this_entry, which is not bound: NameError
merge_modified(mopts, this_change, other_change) ==
    IF this_change # NoChange /\ this_change.type = CHANGE_DELETE
    THEN <<Yielded(NO_ENTRY,
            <<MergeConflict("structure", this_change.new, other_change.new,
                other_change.old,
                <<"is deleted in this but modified in other", other_change.old.path>>)>>,
            {})>>
    ELSE IF this_change # NoChange /\ this_change.type \in {CHANGE_MODIFY, CHANGE_RENAME}
    THEN <<merge_entry(mopts, this_change.new.path, this_change.new,
                       other_change.new, other_change.old)>>
    ELSE IF this_change # NoChange THEN <<Raised>>
    ELSE <<Yielded(TreeEntry(other_change.new.path, other_change.new.mode,
                             other_change.new.sha), <<>>, {})>>

\* lines 293-362 for one change of other; without rename detector no change
\* is a rename, and line 361 reads this_entry, which is not bound
merge_change(mopts, by_common_path, by_this_path, other_change) ==
    LET this_change == dict_get(by_common_path, other_change.old.path)
    IN IF this_change = other_change THEN <<>>
       ELSE IF other_change.type \in {CHANGE_ADD, CHANGE_COPY}
       THEN merge_added(by_this_path, other_change)
       ELSE IF other_change.type = CHANGE_DELETE
       THEN merge_deleted(this_change, other_change)
       ELSE IF other_change.type = CHANGE_MODIFY
       THEN merge_modified(mopts, this_change, other_change)
       ELSE <<Raised>>

RECURSIVE merge_changes(_, _, _, _)
merge_changes(mopts, by_common_path, by_this_path, other_changes) ==
    IF other_changes = <<>> THEN <<>>
    ELSE merge_change(mopts, by_common_path, by_this_path, Head(other_changes))
         \o merge_changes(mopts, by_common_path, by_this_path, Tail(other_changes))

\* merge_tree, lines 277-362: the list of what it yields
merge_tree(mopts, this_tree, other_tree, common_tree) ==
    LET changes_this == tree_changes(common_tree, this_tree)
    IN merge_changes(mopts,
            changes_this_by_common_path(changes_this),
            changes_this_by_this_path(changes_this),
            tree_changes(common_tree, other_tree))

(***************************************************************************)
(* merge.py: MergeResults, lines 365-403.  tree_id is <<>> for None and    *)
(* <<tree>> once set.                                                      *)
(***************************************************************************)
MergeResults ==
    [structure_conflicts |-> <<>>, chunk_conflicts |-> <<>>, hand_merge_set |-> {},
     updated_tree_entries |-> <<>>, tree_id |-> <<>>]

add_structure_conflict(res, structure) ==
    [res EXCEPT !.structure_conflicts = Append(@, structure)]

add_chunk_conflict(res, conflict) ==
    [res EXCEPT !.chunk_conflicts = Append(@, conflict),
                !.hand_merge_set = @ \cup {conflict.this_entry.path}]

add_entry(res, entry) == [res EXCEPT !.updated_tree_entries = Append(@, entry)]

has_structure_conflicts(res) == Len(res.structure_conflicts) > 0

has_chunk_conflicts(res) == Len(res.chunk_conflicts) > 0

\* merge_complete asking for no conflict of either kind
merge_complete_no_conflict(res) ==
    Len(res.structure_conflicts) = 0 /\ Len(res.chunk_conflicts) = 0

merge_complete(res) == Len(res.structure_conflicts) = 0

(***************************************************************************)
(* merge.py: the orchestration.  ms is the state of one call of merge: the *)
(* object store (repo, trees, blobs), the arguments (commit_ids,           *)
(* moptions), the clock, the locals (lcas, merge_base, vcommits, tree_ids, *)
(* mrg_results), the working tree and the position pc.                     *)
(***************************************************************************)
commit_parents(store) == [c \in DOMAIN store |-> store[c].parents]

commit_stamps(store) == [c \in DOMAIN store |-> store[c].commit_time]

\* graph_fixed.py, find_merge_base, lines 122-132
find_merge_base(store, ids) ==
    IF ids = <<>> THEN <<>>
    ELSE IF Len(ids) = 1 THEN <<ids[1]>>
    ELSE IF ids[1] \in Range(Tail(ids)) THEN <<ids[1]>>
    ELSE find_lcas(commit_parents(store), commit_stamps(store), ids[1], Tail(ids), 0)

\* the id of the commit do_commit makes: the hash of its message, parents,
\* tree and time (author and committer are fixed)
virtual_commit_id(tree_id, parent1, parent2, time) ==
    <<"virtual commit of parents", parent1, parent2, tree_id, time>>

\* _create_virtual_tree_commit, lines 135-153
create_virtual_tree_commit(ms, tree_id, parent1, parent2) ==
    LET vcommit == virtual_commit_id(tree_id, parent1, parent2, ms.now)
    IN [ms |-> [ms EXCEPT !.repo =
                    (vcommit :> [tree |-> tree_id, parents |-> <<parent1, parent2>>,
                                 commit_time |-> ms.now]) @@ @],
        vcommit |-> vcommit]

\* lines 432-436: a virtual commit of the empty tree
create_empty_base(ms, parent1, parent2) ==
    LET empty_tree_id == create_and_store_merged_tree(<<>>)
        c == create_virtual_tree_commit([ms EXCEPT !.trees = @ \cup {empty_tree_id}],
                                        empty_tree_id, parent1, parent2)
    IN [c.ms EXCEPT !.lcas = Append(@, c.vcommit),
                    !.vcommits = Append(@, c.vcommit)]

Synth(ms, rv, result) == [ms |-> ms, rv |-> rv, result |-> result]

\* a walk that gives up at a conflict of any type
RECURSIVE walk_for_base_any_conflict(_, _, _)
walk_for_base_any_conflict(ms, res, yields) ==
    IF yields = <<>> THEN [ms |-> ms, rv |-> 0, res |-> res]
    ELSE LET y == Head(yields)
             m1 == [ms EXCEPT !.blobs = @ \cup y.blobs]
         IN IF y.raised THEN [ms |-> [ms EXCEPT !.pc = "raised"], rv |-> -1, res |-> res]
            ELSE IF y.conflicts # <<>>
            THEN [ms |-> m1, rv |-> -1, res |-> res]
            ELSE walk_for_base_any_conflict(m1,
                    IF is_entry(y.entry) THEN add_entry(res, y.entry) ELSE res,
                    Tail(yields))

\* lines 196-202: the walk of merge_tree that builds a virtual base
RECURSIVE walk_for_base(_, _, _)
walk_for_base(ms, res, yields) ==
    IF yields = <<>> THEN [ms |-> ms, rv |-> 0, res |-> res]
    ELSE LET y == Head(yields)
             m1 == [ms EXCEPT !.blobs = @ \cup y.blobs]
         IN IF y.raised THEN [ms |-> [ms EXCEPT !.pc = "raised"], rv |-> -1, res |-> res]
            ELSE IF \E k \in 1..Len(y.conflicts) :
                        y.conflicts[k].conflict_type \in {"structure", "ni"}
            THEN [ms |-> m1, rv |-> -1, res |-> res]
            ELSE walk_for_base(m1,
                    IF is_entry(y.entry) THEN add_entry(res, y.entry) ELSE res,
                    Tail(yields))

failed(r) == r.ms.pc = "raised" \/ r.rv < 0

\* a virtual commit that is stored and not listed for removal
commit_virtual_base_unlisted(ms, tree_id, b1, b2) ==
    LET c == create_virtual_tree_commit([ms EXCEPT !.trees = @ \cup {tree_id}],
                                        tree_id, b1, b2)
    IN Synth(c.ms, 0, c.vcommit)

\* lines 204-212: the merged tree is stored and committed
commit_virtual_base(ms, tree_id, b1, b2) ==
    LET c == create_virtual_tree_commit([ms EXCEPT !.trees = @ \cup {tree_id}],
                                        tree_id, b1, b2)
    IN Synth([c.ms EXCEPT !.vcommits = Append(@, c.vcommit)], 0, c.vcommit)

\* lines 196-212, w being the outcome of the walk
virtual_base_of_walk(b1, b2, b1_tree_id, w) ==
    IF failed(w) THEN Synth(w.ms, -1, NoCommit)
    ELSE commit_virtual_base(w.ms,
            create_and_store_merged_tree(
                updated_tree_entries_with_changes(b1_tree_id, w.res.updated_tree_entries)),
            b1, b2)

\* lines 189-212, f being the outcome of the loop of lines 183-188
virtual_base_on(b1, b2, f) ==
    IF failed(f) THEN Synth(f.ms, -1, NoCommit)
    ELSE virtual_base_of_walk(b1, b2, f.ms.repo[b1].tree,
            walk_for_base(f.ms, MergeResults,
                merge_tree(f.ms.moptions, f.ms.repo[b1].tree, f.ms.repo[b2].tree,
                           f.ms.repo[f.result].tree)))

RECURSIVE create_virtual_merge_base_internal(_, _, _)
RECURSIVE merge_onto_base(_, _, _)
RECURSIVE merge_onto_next(_, _)
RECURSIVE virtual_base_from(_, _, _, _)

\* the loops of lines 160-168 and 183-190: base is merged with each commit
\* of the list in turn
merge_onto_base(ms, base, lcas_commits) ==
    IF lcas_commits = <<>> THEN Synth(ms, 0, base)
    ELSE merge_onto_next(
            create_virtual_merge_base_internal(ms, base, Head(lcas_commits)),
            Tail(lcas_commits))

\* lines 163-165 and 186-188, r being what the nested call handed back
merge_onto_next(r, lcas_commits) ==
    IF failed(r) THEN Synth(r.ms, -1, NoCommit)
    ELSE merge_onto_base(r.ms, r.result, lcas_commits)

\* lines 175-212.  Line 175 pops the first commit of the list: IndexError
\* when find_merge_base found none; a commit id is never false, so lines
\* 177-182 are never run
virtual_base_from(ms, b1, b2, lcas_commits) ==
    IF lcas_commits = <<>> THEN Synth([ms EXCEPT !.pc = "raised"], -1, NoCommit)
    ELSE virtual_base_on(b1, b2,
            merge_onto_base(ms, Head(lcas_commits), Tail(lcas_commits)))

\* _create_virtual_merge_base_internal, lines 172-212
create_virtual_merge_base_internal(ms, b1, b2) ==
    virtual_base_from(ms, b1, b2, Reverse(find_merge_base(ms.repo, <<b1, b2>>)))

\* _create_virtual_merge_base_for_lcas, lines 156-169
create_virtual_merge_base_for_lcas(ms, lcas_commits) ==
    merge_onto_base(ms, Head(lcas_commits), Tail(lcas_commits))

\* lines 450-453, r being what the synthesis handed back
merge_with_virtual_base(newest, r) ==
    IF r.ms.pc = "raised" THEN r.ms
    ELSE [r.ms EXCEPT !.merge_base = IF r.rv = 0 THEN r.result ELSE newest,
                      !.pc = "walk"]

\* lines 438-453: the newest merge base, or a virtual one; line 448 turns
\* lcas round and line 157 pops its first commit
merge_with_bases(m1) ==
    IF Len(m1.lcas) > 1
        /\ m1.moptions.strategy \in {"ort", "ort-ours", "ort-theirs", "recursive"}
    THEN merge_with_virtual_base(m1.lcas[Len(m1.lcas)],
            create_virtual_merge_base_for_lcas(
                [m1 EXCEPT !.lcas = Tail(Reverse(@))], Reverse(m1.lcas)))
    ELSE [m1 EXCEPT !.merge_base = m1.lcas[Len(m1.lcas)], !.pc = "walk"]

\* lines 430-436
merge_with_lcas(found) ==
    merge_with_bases(
        IF Len(found.lcas) = 0
        THEN create_empty_base(found, found.commit_ids[1], found.commit_ids[2])
        ELSE found)

\* merge turning down the lists of fewer than two commits only
merge_begin_two_or_more(ms) ==
    IF Len(ms.commit_ids) < 2
    THEN [ms EXCEPT !.mrg_results = add_structure_conflict(@,
                        MergeConflict("structure", NO_ENTRY, NO_ENTRY, NO_ENTRY,
                                      <<"can only merge two commits">>)),
                    !.pc = "done"]
    ELSE merge_with_lcas([ms EXCEPT !.lcas = find_merge_base(ms.repo, ms.commit_ids)])

\* merge, lines 415-453: the commits are counted and the merge base is chosen
merge_begin(ms) ==
    IF Len(ms.commit_ids) # 2
    THEN [ms EXCEPT !.mrg_results = add_structure_conflict(@,
                        MergeConflict("structure", NO_ENTRY, NO_ENTRY, NO_ENTRY,
                                      <<"can only merge two commits">>)),
                    !.pc = "done"]
    ELSE merge_with_lcas([ms EXCEPT !.lcas = find_merge_base(ms.repo, ms.commit_ids)])

\* lines 469-476
RECURSIVE add_conflicts(_, _)
add_conflicts(res, cnfs) ==
    IF cnfs = <<>> THEN res
    ELSE add_conflicts(
            IF Head(cnfs).conflict_type \in {"structure", "ni"}
            THEN add_structure_conflict(res, Head(cnfs))
            ELSE add_chunk_conflict(res, Head(cnfs)),
            Tail(cnfs))

RECURSIVE walk_merge_tree(_, _)
walk_merge_tree(ms, yields) ==
    IF yields = <<>> THEN ms
    ELSE LET y == Head(yields)
             res == add_conflicts(ms.mrg_results, y.conflicts)
         IN IF y.raised THEN [ms EXCEPT !.pc = "raised"]
            ELSE walk_merge_tree(
                    [ms EXCEPT !.blobs = @ \cup y.blobs,
                               !.mrg_results = IF is_entry(y.entry)
                                               THEN add_entry(res, y.entry) ELSE res],
                    Tail(yields))

\* the call goes on at pc unless an exception has ended it
at_pc(ms, pc_next) == IF ms.pc = "raised" THEN ms ELSE [ms EXCEPT !.pc = pc_next]

\* lines 459-476, the three commits being in the object store
walk_from_commits(ms, ids) ==
    at_pc(walk_merge_tree([ms EXCEPT !.tree_ids = ids],
                merge_tree(ms.moptions, ids.this, ids.other, ids.base)),
          "write")

\* merge, lines 455-476: the walk over the changed entries; line 457 raises
\* KeyError when the object store does not hold the merge base
merge_walk(ms) ==
    IF ms.merge_base \notin DOMAIN ms.repo THEN [ms EXCEPT !.pc = "raised"]
    ELSE walk_from_commits(ms, [this |-> ms.repo[ms.commit_ids[1]].tree,
                                other |-> ms.repo[ms.commit_ids[2]].tree,
                                base |-> ms.repo[ms.merge_base].tree])

\* the commit time of the base commit object read at line 457, which the
\* call holds; the time of a virtual commit is the last part of its id
base_commit_time(ms) ==
    IF ms.merge_base \in DOMAIN ms.repo THEN ms.repo[ms.merge_base].commit_time
    ELSE ms.merge_base[Len(ms.merge_base)]

\* lines 497-512: the three stages of every chunk conflict
index_conflicts(ms) ==
    Join([k \in 1..Len(ms.mrg_results.chunk_conflicts) |->
            LET conflict == ms.mrg_results.chunk_conflicts[k]
            IN << <<conflict.base_entry, 1, base_commit_time(ms)>>,
                  <<conflict.this_entry, 2, ms.repo[ms.commit_ids[1]].commit_time>>,
                  <<conflict.other_entry, 3, ms.repo[ms.commit_ids[2]].commit_time>> >>])

\* lines 485-493: the paths staged
to_stage_relpaths(res) ==
    LET unmerged(entry) == entry.path \notin res.hand_merge_set
        staged == SelectSeq(res.updated_tree_entries, unmerged)
    IN [i \in 1..Len(staged) |-> staged[i].path]

\* merge, lines 478-512: the merged tree is written, built and staged
merge_write(ms) ==
    IF merge_complete(ms.mrg_results)
    THEN LET tree_id == create_and_store_merged_tree(
                            updated_tree_entries_with_changes(ms.tree_ids.this,
                                ms.mrg_results.updated_tree_entries))
         IN [ms EXCEPT !.mrg_results.tree_id = <<tree_id>>,
                       !.trees = @ \cup {tree_id},
                       !.worktree = [files |-> ms.mrg_results.updated_tree_entries,
                                     staged |-> to_stage_relpaths(ms.mrg_results),
                                     conflicts |-> index_conflicts(ms)],
                       !.pc = "cleanup"]
    ELSE [ms EXCEPT !.pc = "cleanup"]

\* lines 520-526: _remove_loose_object removes the file of the object and
\* raises when there is none
RECURSIVE remove_loose_objects(_, _)
remove_loose_objects(ms, vcmts) ==
    IF vcmts = <<>> THEN ms
    ELSE IF Head(vcmts) \notin DOMAIN ms.repo THEN [ms EXCEPT !.pc = "raised"]
    ELSE remove_loose_objects(
            [ms EXCEPT !.repo = [c \in (DOMAIN @) \ {Head(vcmts)} |-> @[c]]],
            Tail(vcmts))

\* merge, lines 514-528: the virtual commits are removed
merge_cleanup(ms) == at_pc(remove_loose_objects(ms, ms.vcommits), "done")

merge_step(ms) ==
    IF ms.pc = "start" THEN merge_begin(ms)
    ELSE IF ms.pc = "walk" THEN merge_walk(ms)
    ELSE IF ms.pc = "write" THEN merge_write(ms)
    ELSE merge_cleanup(ms)

\* merge(repo, moptions, commit_ids) from its call to its return
RECURSIVE merge_run(_)
merge_run(ms) == IF ms.pc \in {"done", "raised"} THEN ms ELSE merge_run(merge_step(ms))

\* no second call of merge is running
NoOtherCall ==
    [commit_ids |-> <<>>, moptions |-> [file_merger |-> None, strategy |-> "ort"],
     pc |-> "idle", lcas |-> <<>>, merge_base |-> NoCommit, vcommits |-> <<>>,
     tree_ids |-> [this |-> EmptyTree, other |-> EmptyTree, base |-> EmptyTree],
     mrg_results |-> MergeResults,
     worktree |-> [files |-> <<>>, staged |-> <<>>, conflicts |-> <<>>]]

\* no merge is running
MergeIdle ==
    /\ other_call = NoOtherCall
    /\ repo = <<>>
    /\ trees = {}
    /\ blobs = {}
    /\ merge_ids = <<>>
    /\ moptions = [file_merger |-> None, strategy |-> "ort"]
    /\ now = 0
    /\ mpc = "idle"
    /\ merge_lcas = <<>>
    /\ merge_base = NoCommit
    /\ vcommits = <<>>
    /\ tree_ids = [this |-> EmptyTree, other |-> EmptyTree, base |-> EmptyTree]
    /\ mrg_results = MergeResults
    /\ worktree = [files |-> <<>>, staged |-> <<>>, conflicts |-> <<>>]

(***************************************************************************)
(* The graph operations as a state machine.                                *)
(***************************************************************************)
search == [cstates |-> cstates, wlst |-> wlst, cands |-> cands]

\* no graph operation is running
GraphIdle ==
    /\ parents = [c \in Commits |-> <<>>]
    /\ stamp = [c \in Commits |-> 0]
    /\ commit_ids = <<>>
    /\ op = "none"
    /\ pc = "idle"
    /\ min_stamp = 0
    /\ wlst = <<>>
    /\ cstates = [c \in Commits |-> {}]
    /\ cands = <<>>
    /\ lcas = <<>>
    /\ ff = "unset"

\* no file merge is running
Diff3Idle ==
    /\ o_lines = <<>>
    /\ a_lines = <<>>
    /\ b_lines = <<>>
    /\ a_matches = <<>>
    /\ b_matches = <<>>
    /\ strategy = "ort"
    /\ cursor = <<0, 0, 0>>
    /\ chunks = <<>>
    /\ conflicts = <<>>
    /\ w_ranges = <<<<0, 0>>, <<0, 0>>, <<0, 0>>>>
    /\ branch = "none"
    /\ dpc = "idle"

\* no do_file_merge_* is running
NoFileMerge == [alice |-> <<>>, bob |-> <<>>, ancestor |-> <<>>,
                diff_type |-> "none", strategy |-> "none"]

NoMerged == [merged_text |-> <<>>, conflict_list |-> <<>>]

FileMergeIdle == fm_args = NoFileMerge /\ fm_result = NoMerged

\* no _merge_entry is running
NoEntryCall == [moptions |-> [file_merger |-> None, strategy |-> "none"],
                new_path |-> None, this_entry |-> NO_ENTRY,
                other_entry |-> NO_ENTRY, base_entry |-> NO_ENTRY]

EntryIdle == entry_args = NoEntryCall /\ entry_result = Raised /\ epc = "idle"

GraphInit ==
    /\ Diff3Idle
    /\ MergeIdle
    /\ FileMergeIdle
    /\ EntryIdle
    /\ parents \in CommitGraphs
    /\ stamp \in [Commits -> Stamps]
    /\ commit_ids \in SeqsUpTo(Commits, 2)
    /\ op = "none"
    /\ pc = "start"
    /\ min_stamp = 0
    /\ wlst = <<>>
    /\ cstates = [c \in Commits |-> {}]
    /\ cands = <<>>
    /\ lcas = <<>>
    /\ ff = "unset"

\* the minimum stamp can_fast_forward hands to _find_lcas (line 189)
fast_forward_min_stamp(stm, c1) == stm[c1]

\* find_merge_base, lines 122-131, up to the loop of _find_lcas
FindMergeBase ==
    /\ pc = "start"
    /\ op' = "find_merge_base"
    /\ min_stamp' = 0
    /\ IF commit_ids = <<>>
       THEN /\ lcas' = <<>>
            /\ pc' = "done"
            /\ UNCHANGED <<wlst, cstates, cands>>
       ELSE IF Len(commit_ids) = 1 \/ commit_ids[1] \in Range(Tail(commit_ids))
       THEN /\ lcas' = <<commit_ids[1]>>
            /\ pc' = "done"
            /\ UNCHANGED <<wlst, cstates, cands>>
       ELSE LET s == find_lcas_init(parents, stamp, commit_ids[1], Tail(commit_ids))
            IN /\ wlst' = s.wlst
               /\ cstates' = s.cstates
               /\ cands' = s.cands
               /\ pc' = "search"
               /\ UNCHANGED lcas
    /\ UNCHANGED <<parents, stamp, commit_ids, ff>>
    /\ UNCHANGED <<diff3_vars, merge_vars, filemerge_vars, entry_vars>>

\* can_fast_forward, lines 184-190, up to the loop of _find_lcas
CanFastForward ==
    /\ pc = "start"
    /\ Len(commit_ids) = 2
    /\ op' = "can_fast_forward"
    /\ IF commit_ids[1] = commit_ids[2]
       THEN /\ ff' = "true"
            /\ pc' = "done"
            /\ UNCHANGED <<min_stamp, wlst, cstates, cands>>
       ELSE LET s == find_lcas_init(parents, stamp, commit_ids[1], <<commit_ids[2]>>)
            IN /\ min_stamp' = fast_forward_min_stamp(stamp, commit_ids[1])
               /\ wlst' = s.wlst
               /\ cstates' = s.cstates
               /\ cands' = s.cands
               /\ pc' = "search"
               /\ UNCHANGED ff
    /\ UNCHANGED <<parents, stamp, commit_ids, lcas>>
    /\ UNCHANGED <<diff3_vars, merge_vars, filemerge_vars, entry_vars>>

\* one iteration of the loop of _find_lcas (lines 65-90)
SearchStep ==
    /\ pc = "search"
    /\ has_candidates(wlst, cstates)
    /\ LET s == find_lcas_step(parents, stamp, min_stamp, search)
       IN /\ wlst' = s.wlst
          /\ cstates' = s.cstates
          /\ cands' = s.cands
    /\ UNCHANGED <<parents, stamp, commit_ids, op, pc, min_stamp, lcas, ff>>
    /\ UNCHANGED <<diff3_vars, merge_vars, filemerge_vars, entry_vars>>

\* the loop ends: lines 95-101, and the return of the entry point
SearchReturn ==
    /\ pc = "search"
    /\ ~has_candidates(wlst, cstates)
    /\ lcas' = find_lcas_results(search)
    /\ ff' = IF op = "can_fast_forward"
             THEN (IF lcas' = <<commit_ids[1]>> THEN "true" ELSE "false")
             ELSE ff
    /\ pc' = "done"
    /\ UNCHANGED <<parents, stamp, commit_ids, op, min_stamp, wlst, cstates, cands>>
    /\ UNCHANGED <<diff3_vars, merge_vars, filemerge_vars, entry_vars>>

GraphNext == FindMergeBase \/ CanFastForward \/ SearchStep \/ SearchReturn

GraphSpec == GraphInit /\ [][GraphNext]_vars

\* the searches for two different commits of a history that descends from
\* one root commit, with commit times up to MaxLiveStamp
MaxLiveStamp == 1

SearchLiveInit ==
    /\ GraphInit
    /\ Len(commit_ids) = 2
    /\ commit_ids[1] # commit_ids[2]
    /\ \A c \in Commits : stamp[c] <= MaxLiveStamp
    /\ \A c \in Commits \ {1} : parents[c] # <<>>

\* the caller runs the loop of _find_lcas on: no step waits for anything
GraphLiveSpec == SearchLiveInit /\ [][GraphNext]_vars /\ WF_vars(GraphNext)

(***************************************************************************)
(* find_octopus_base, lines 135-165.                                       *)
(***************************************************************************)
\* lines 160-162: the lowest common ancestors of cmt and of each commit of
\* the running list, one list after the other
RECURSIVE extend_next_lcas(_, _, _, _)
extend_next_lcas(par, stm, cmt, running) ==
    IF running = <<>> THEN <<>>
    ELSE find_lcas(par, stm, cmt, <<Head(running)>>, 0)
         \o extend_next_lcas(par, stm, cmt, Tail(running))

\* lines 158-163: the loop over the other commits
RECURSIVE octopus_fold(_, _, _, _)
octopus_fold(par, stm, running, others) ==
    IF others = <<>> THEN running
    ELSE octopus_fold(par, stm, extend_next_lcas(par, stm, Head(others), running),
                      Tail(others))

\* the object store find_merge_base is handed
graph_store(par, stm) == [c \in DOMAIN par |-> [parents |-> par[c], commit_time |-> stm[c]]]

find_octopus_base(par, stm, ids) ==
    IF ids = <<>> THEN <<>>
    ELSE IF Len(ids) <= 2 THEN find_merge_base(graph_store(par, stm), ids)
    ELSE octopus_fold(par, stm, <<ids[1]>>, Tail(ids))

\* the state at the call of find_octopus_base(repo, commit_ids)
OctopusInit ==
    /\ Diff3Idle
    /\ MergeIdle
    /\ FileMergeIdle
    /\ EntryIdle
    /\ parents \in CommitGraphs
    /\ stamp \in [Commits -> Stamps]
    /\ commit_ids \in [1..3 -> Commits]
    /\ op = "none"
    /\ pc = "start"
    /\ min_stamp = 0
    /\ wlst = <<>>
    /\ cstates = [c \in Commits |-> {}]
    /\ cands = <<>>
    /\ lcas = <<>>
    /\ ff = "unset"

FindOctopusBase ==
    /\ pc = "start"
    /\ op' = "find_octopus_base"
    /\ lcas' = find_octopus_base(parents, stamp, commit_ids)
    /\ pc' = "done"
    /\ UNCHANGED <<parents, stamp, commit_ids, min_stamp, wlst, cstates, cands, ff>>
    /\ UNCHANGED <<diff3_vars, merge_vars, filemerge_vars, entry_vars>>

OctopusNext == FindOctopusBase

OctopusSpec == OctopusInit /\ [][OctopusNext]_vars

(***************************************************************************)
(* Merge3Way as a state machine: one step per chunk written.               *)
(***************************************************************************)
m3 == [o_lines |-> o_lines, a_lines |-> a_lines, b_lines |-> b_lines,
       a_matches |-> a_matches, b_matches |-> b_matches, strategy |-> strategy,
       cursor |-> cursor, chunks |-> chunks, conflicts |-> conflicts]

BaseFiles == SeqsUpTo(LineTexts, MaxBaseLines)
SideFiles == SeqsUpTo(LineTexts, MaxSideLines)

\* the state after Merge3Way(alice, bob, ancestor, diff_type, strategy)
Diff3Init ==
    /\ GraphIdle
    /\ MergeIdle
    /\ FileMergeIdle
    /\ EntryIdle
    /\ o_lines \in BaseFiles
    /\ a_lines \in SideFiles
    /\ b_lines \in SideFiles
    /\ a_matches \in Correspondences(o_lines, a_lines)
    /\ b_matches \in Correspondences(o_lines, b_lines)
    /\ strategy \in Strategies
    /\ cursor = <<0, 0, 0>>
    /\ chunks = <<>>
    /\ conflicts = <<>>
    /\ w_ranges = <<<<0, 0>>, <<0, 0>>, <<0, 0>>>>
    /\ branch = "none"
    /\ dpc = "walk"

Written(m) ==
    /\ cursor' = m.cursor
    /\ chunks' = m.chunks
    /\ conflicts' = m.conflicts
    /\ UNCHANGED <<o_lines, a_lines, b_lines, a_matches, b_matches, strategy>>
    /\ UNCHANGED <<graph_vars, merge_vars, filemerge_vars, entry_vars>>

\* lines 239-240: the lines up to the next mismatch form a chunk
EmitStable ==
    /\ dpc = "walk"
    /\ chunk_branch(m3) = "stable"
    /\ LET i == find_next_mismatch(m3)
       IN /\ w_ranges' = emit_ranges(m3, cursor[1] + i, cursor[2] + i, cursor[3] + i)
          /\ Written(emit_chunk(m3, cursor[1] + i, cursor[2] + i, cursor[3] + i))
    /\ branch' = "stable"
    /\ dpc' = "walk"

\* lines 232-235: the lines up to the next line matched on both sides form a chunk
EmitUnstable ==
    /\ dpc = "walk"
    /\ chunk_branch(m3) = "unstable"
    /\ LET nm == find_next_match(m3)
       IN /\ w_ranges' = emit_ranges(m3, nm[1], nm[2], nm[3])
          /\ Written(emit_chunk(m3, nm[1], nm[2], nm[3]))
    /\ branch' = "unstable"
    /\ dpc' = "walk"

\* lines 229-231 and 236-238: the rest of the files forms the last chunk
EmitFinal ==
    /\ dpc = "walk"
    /\ chunk_branch(m3) = "final"
    /\ w_ranges' = final_ranges(m3)
    /\ Written(emit_final_chunk(m3))
    /\ branch' = "final"
    /\ dpc' = "done"

Diff3Next == EmitStable \/ EmitUnstable \/ EmitFinal

Diff3Spec == Diff3Init /\ [][Diff3Next]_vars

\* the walk moves its cursors by the correspondences alone (lines 228-284):
\* one strategy stands for the six
WalkLiveInit == Diff3Init /\ strategy = "ort"

\* _generate_chunks is a loop without suspension: it runs while it can
Diff3LiveSpec == WalkLiveInit /\ [][Diff3Next]_vars /\ WF_vars(Diff3Next)

(***************************************************************************)
(* do_file_merge_myers, do_file_merge_histogram and do_file_merge_ndiff as *)
(* a state machine: the call builds the Merge3Way object, the walk writes  *)
(* its chunks, the return hands back the joined chunks and the conflicts.  *)
(***************************************************************************)
DiffTypes == {"myers", "histogram", "ndiff"}

\* the lines of dlines that a token stream of olines and dlines tags "  "
RECURSIVE kept_lines(_, _)
kept_lines(tokens, dlines) ==
    IF tokens = <<>> THEN <<>>
    ELSE IF Head(tokens) = "  " THEN <<Head(dlines)>> \o kept_lines(Tail(tokens), Tail(dlines))
    ELSE IF Head(tokens) = "+ " THEN kept_lines(Tail(tokens), Tail(dlines))
    ELSE kept_lines(Tail(tokens), dlines)

\* generate_common_ancestor, lines 23-26: what HistogramDiffer.common_base
\* may hand out, the lines a diff of alice and bob finds in both
common_bases(alice, bob) == {kept_lines(s, bob) : s \in DiffScripts(alice, bob)}

\* lines 42, 64 and 86: `not ancestor` holds for the empty bytestring,
\* `not ancestor == 0` holds for every bytestring
ancestor_generated(args) == args.diff_type = "ndiff" \/ args.ancestor = <<>>

\* the ancestors Merge3Way may be built with, lines 42-44, 64-66 and 86-88
merge_ancestors(args) ==
    IF ancestor_generated(args) THEN common_bases(args.alice, args.bob)
    ELSE {args.ancestor}

FileMergeInit ==
    /\ GraphIdle
    /\ MergeIdle
    /\ EntryIdle
    /\ fm_args \in [alice : SideFiles, bob : SideFiles, ancestor : BaseFiles,
                     diff_type : DiffTypes, strategy : Strategies]
    /\ fm_result = NoMerged
    /\ o_lines = <<>>
    /\ a_lines = <<>>
    /\ b_lines = <<>>
    /\ a_matches = <<>>
    /\ b_matches = <<>>
    /\ strategy = "ort"
    /\ cursor = <<0, 0, 0>>
    /\ chunks = <<>>
    /\ conflicts = <<>>
    /\ w_ranges = <<<<0, 0>>, <<0, 0>>, <<0, 0>>>>
    /\ branch = "none"
    /\ dpc = "call"

\* lines 42-44, 64-66 and 86-88: the ancestor is generated when there is
\* none, and the Merge3Way object is built
FileMergeCall ==
    /\ dpc = "call"
    /\ o_lines' \in merge_ancestors(fm_args)
    /\ a_lines' = fm_args.alice
    /\ b_lines' = fm_args.bob
    /\ a_matches' \in Correspondences(o_lines', a_lines')
    /\ b_matches' \in Correspondences(o_lines', b_lines')
    /\ strategy' = fm_args.strategy
    /\ cursor' = <<0, 0, 0>>
    /\ chunks' = <<>>
    /\ conflicts' = <<>>
    /\ dpc' = "walk"
    /\ UNCHANGED <<w_ranges, branch, filemerge_vars>>
    /\ UNCHANGED <<graph_vars, merge_vars, entry_vars>>

\* lines 45-47, 67-69 and 89-91
FileMergeReturn ==
    /\ dpc = "done"
    /\ fm_result' = [merged_text |-> Join(chunks), conflict_list |-> conflicts]
    /\ dpc' = "returned"
    /\ UNCHANGED <<o_lines, a_lines, b_lines, a_matches, b_matches, strategy,
                   cursor, chunks, conflicts, w_ranges, branch, fm_args>>
    /\ UNCHANGED <<graph_vars, merge_vars, entry_vars>>

FileMergeNext ==
    FileMergeCall \/ EmitStable \/ EmitUnstable \/ EmitFinal \/ FileMergeReturn

FileMergeSpec == FileMergeInit /\ [][FileMergeNext]_vars

(***************************************************************************)
(* _merge_entry as a state machine of one step: the call with the three    *)
(* entries of a path, and its return.                                      *)
(***************************************************************************)
\* the contents of the blobs handed to _merge_entry: text and binary
EntryContents == {<<"x">>, <<"y">>, <<BinaryLine>>, <<"x", BinaryLine>>}

EntryOptions == [file_merger : FileMergers \cup {None}, strategy : Strategies]

EntriesAt(path) == {TreeEntry(path, RegularFile, sha) : sha \in EntryContents}

MergeEntryInit ==
    /\ GraphIdle
    /\ Diff3Idle
    /\ MergeIdle
    /\ FileMergeIdle
    /\ entry_args \in [moptions : EntryOptions, new_path : {PathNames[1]},
                        this_entry : EntriesAt(PathNames[1]),
                        other_entry : EntriesAt(PathNames[1]),
                        base_entry : EntriesAt(PathNames[1])]
    /\ entry_result = Raised
    /\ epc = "call"

\* _merge_entry, lines 215-274
MergeEntryCall ==
    /\ epc = "call"
    /\ entry_result' = merge_entry(entry_args.moptions, entry_args.new_path,
                                   entry_args.this_entry, entry_args.other_entry,
                                   entry_args.base_entry)
    /\ epc' = "returned"
    /\ UNCHANGED <<entry_args, graph_vars, diff3_vars, merge_vars, filemerge_vars>>

MergeEntryNext == MergeEntryCall

MergeEntrySpec == MergeEntryInit /\ [][MergeEntryNext]_vars

(***************************************************************************)
(* merge as a state machine: the choice of the merge base, the walk of the *)
(* changed entries, the writing of the merged tree and the removal of the  *)
(* virtual commits are a step each.                                        *)
(***************************************************************************)
Cid(k) == <<k>>

\* parents carry smaller numbers than their children
MergeGraphs ==
    {g \in [1..NumMergeCommits -> DistinctSeqs(1..NumMergeCommits, MaxParents)] :
        \A k \in 1..NumMergeCommits : \A i \in 1..Len(g[k]) : g[k][i] < k}

\* the trees of the k-th commit: its files hold one of the first k texts
TreesOf(k) ==
    [Paths -> {NoFile} \cup {[mode |-> RegularFile, sha |-> <<BlobTexts[i]>>] : i \in 1..k}]

MergeTrees ==
    {t \in [1..NumMergeCommits -> TreesOf(NumMergeCommits)] :
        \A k \in 1..NumMergeCommits : t[k] \in TreesOf(k)}

\* commit times: all equal, growing with the number, falling with the number
MergeStamps ==
    {[k \in 1..NumMergeCommits |-> 0],
     [k \in 1..NumMergeCommits |-> k],
     [k \in 1..NumMergeCommits |-> NumMergeCommits - k]}

MergeRepos ==
    {[c \in {Cid(k) : k \in 1..NumMergeCommits} |->
        [tree |-> t[c[1]],
         parents |-> [i \in 1..Len(g[c[1]]) |-> Cid(g[c[1]][i])],
         commit_time |-> s[c[1]]]] :
     g \in MergeGraphs, t \in MergeTrees, s \in MergeStamps}

\* the commit lists handed to merge: the two newest commits in both orders,
\* a commit with itself, and lists of no, one and three commits
MergeArgLists ==
    {<<Cid(NumMergeCommits - 1), Cid(NumMergeCommits)>>,
     <<Cid(NumMergeCommits), Cid(NumMergeCommits - 1)>>,
     <<Cid(NumMergeCommits), Cid(NumMergeCommits)>>,
     <<Cid(NumMergeCommits)>>,
     <<>>,
     <<Cid(NumMergeCommits), Cid(NumMergeCommits - 1), Cid(NumMergeCommits - 2)>>}

\* the state at the call of merge(repo, moptions, commit_ids)
MergeInit ==
    /\ GraphIdle
    /\ Diff3Idle
    /\ FileMergeIdle
    /\ EntryIdle
    /\ repo \in MergeRepos
    /\ trees = {repo[c].tree : c \in DOMAIN repo}
    /\ blobs = {repo[c].tree[p].sha : c \in DOMAIN repo, p \in Paths} \ {NoSha}
    /\ merge_ids \in MergeArgLists
    /\ moptions \in [file_merger : FileMergers, strategy : MergeStrategies]
    /\ now = NumMergeCommits + 1
    /\ mpc = "start"
    /\ other_call = NoOtherCall
    /\ merge_lcas = <<>>
    /\ merge_base = NoCommit
    /\ vcommits = <<>>
    /\ tree_ids = [this |-> EmptyTree, other |-> EmptyTree, base |-> EmptyTree]
    /\ mrg_results = MergeResults
    /\ worktree = [files |-> <<>>, staged |-> <<>>, conflicts |-> <<>>]

merge_state ==
    [repo |-> repo, trees |-> trees, blobs |-> blobs, commit_ids |-> merge_ids,
     moptions |-> moptions, now |-> now, pc |-> mpc, lcas |-> merge_lcas,
     merge_base |-> merge_base, vcommits |-> vcommits, tree_ids |-> tree_ids,
     mrg_results |-> mrg_results, worktree |-> worktree]

MergeStepped(ms) ==
    /\ repo' = ms.repo
    /\ trees' = ms.trees
    /\ blobs' = ms.blobs
    /\ mpc' = ms.pc
    /\ merge_lcas' = ms.lcas
    /\ merge_base' = ms.merge_base
    /\ vcommits' = ms.vcommits
    /\ tree_ids' = ms.tree_ids
    /\ mrg_results' = ms.mrg_results
    /\ worktree' = ms.worktree
    /\ UNCHANGED <<merge_ids, moptions, now, other_call>>
    /\ UNCHANGED <<graph_vars, diff3_vars, filemerge_vars, entry_vars>>

\* merge, lines 415-453
MergeBegin == mpc = "start" /\ MergeStepped(merge_begin(merge_state))

\* merge, lines 455-476
MergeWalk == mpc = "walk" /\ MergeStepped(merge_walk(merge_state))

\* merge, lines 478-512
MergeWrite == mpc = "write" /\ MergeStepped(merge_write(merge_state))

\* merge, lines 514-528
MergeCleanup == mpc = "cleanup" /\ MergeStepped(merge_cleanup(merge_state))

MergeNext == MergeBegin \/ MergeWalk \/ MergeWrite \/ MergeCleanup

MergeSpec == MergeInit /\ [][MergeNext]_vars

(***************************************************************************)
(* merge of commits with several lowest common ancestors: a root commit,   *)
(* and above it SynthLevels levels of two commits each, both commits of a  *)
(* level having both commits of the level below as parents (criss-cross).  *)
(***************************************************************************)
SynthLevels == 3

SynthCommits == 1..(2 * SynthLevels + 1)

\* the commits 2j and 2j+1 make the level j
SynthLevelOf(k) == k \div 2

\* rooted: the first level descends from commit 1; swapped: the second commit
\* of a level names its parents in the other order
SynthParents(rooted, swapped) ==
    [k \in SynthCommits |->
        IF SynthLevelOf(k) = 0 THEN <<>>
        ELSE IF SynthLevelOf(k) = 1 THEN (IF rooted THEN <<1>> ELSE <<>>)
        ELSE LET lo == 2 * (SynthLevelOf(k) - 1)
             IN IF swapped /\ k = 2 * SynthLevelOf(k) + 1 THEN <<lo + 1, lo>>
                ELSE <<lo, lo + 1>>]

SynthGraphs == {SynthParents(rooted, swapped) : rooted \in BOOLEAN, swapped \in BOOLEAN}

\* one file, absent or holding one of the texts: the root holds the first
\* text, the first level any text, the levels above a text that is not the
\* first
SynthFilesOf(k) ==
    IF SynthLevelOf(k) = 0 THEN {[mode |-> RegularFile, sha |-> <<BlobTexts[1]>>]}
    ELSE {NoFile} \cup
         {[mode |-> RegularFile, sha |-> <<BlobTexts[i]>>] :
            i \in (IF SynthLevelOf(k) = 1 THEN 1 ELSE 2)..Len(BlobTexts)}

SynthTrees ==
    {[k \in SynthCommits |-> [p \in Paths |-> IF p = PathNames[1] THEN f[k] ELSE NoFile]] :
     f \in {h \in [SynthCommits -> UNION {SynthFilesOf(k) : k \in SynthCommits}] :
                \A k \in SynthCommits : h[k] \in SynthFilesOf(k)}}

SynthStamps ==
    {[k \in SynthCommits |-> 0],
     [k \in SynthCommits |-> k],
     [k \in SynthCommits |-> 2 * SynthLevels + 1 - k]}

SynthRepos ==
    {[c \in {Cid(k) : k \in SynthCommits} |->
        [tree |-> t[c[1]],
         parents |-> [i \in 1..Len(g[c[1]]) |-> Cid(g[c[1]][i])],
         commit_time |-> s[c[1]]]] :
     g \in SynthGraphs, t \in SynthTrees, s \in SynthStamps}

\* the two commits of a level, in either order
SynthArgLists ==
    UNION {{<<Cid(2 * j), Cid(2 * j + 1)>>, <<Cid(2 * j + 1), Cid(2 * j)>>} :
           j \in 1..SynthLevels}

SynthStrategies == {"ort", "resolve"}

\* the state at the call of merge(repo, moptions, commit_ids)
SynthesisInit ==
    /\ GraphIdle
    /\ Diff3Idle
    /\ FileMergeIdle
    /\ EntryIdle
    /\ repo \in SynthRepos
    /\ trees = {repo[c].tree : c \in DOMAIN repo}
    /\ blobs = {repo[c].tree[p].sha : c \in DOMAIN repo, p \in Paths} \ {NoSha}
    /\ merge_ids \in SynthArgLists
    /\ moptions \in [file_merger : FileMergers, strategy : SynthStrategies]
    /\ now = 2 * SynthLevels + 2
    /\ mpc = "start"
    /\ other_call = NoOtherCall
    /\ merge_lcas = <<>>
    /\ merge_base = NoCommit
    /\ vcommits = <<>>
    /\ tree_ids = [this |-> EmptyTree, other |-> EmptyTree, base |-> EmptyTree]
    /\ mrg_results = MergeResults
    /\ worktree = [files |-> <<>>, staged |-> <<>>, conflicts |-> <<>>]

SynthesisSpec == SynthesisInit /\ [][MergeNext]_vars

(***************************************************************************)
(* Two calls of merge on one object store, their steps interleaved.  The   *)
(* first call is the one of MergeSpec; the second holds its arguments and  *)
(* locals in other_call.  The clock may advance between two steps.         *)
(***************************************************************************)
MaxTicks == 1

\* one file, the commit times equal
ConcurrentRepos ==
    {r \in MergeRepos :
        \A c \in DOMAIN r : r[c].commit_time = 0 /\ r[c].tree[PathNames[2]] = NoFile}

ConcurrentArgLists ==
    {<<Cid(NumMergeCommits - 1), Cid(NumMergeCommits)>>,
     <<Cid(NumMergeCommits), Cid(NumMergeCommits - 1)>>}

ConcurrentStrategies == {"ort", "resolve"}

\* the state at the two calls of merge
ConcurrentInit ==
    /\ GraphIdle
    /\ Diff3Idle
    /\ FileMergeIdle
    /\ EntryIdle
    /\ repo \in ConcurrentRepos
    /\ trees = {repo[c].tree : c \in DOMAIN repo}
    /\ blobs = {repo[c].tree[p].sha : c \in DOMAIN repo, p \in Paths} \ {NoSha}
    /\ merge_ids \in ConcurrentArgLists
    /\ moptions \in [file_merger : FileMergers, strategy : ConcurrentStrategies]
    /\ now = NumMergeCommits + 1
    /\ mpc = "start"
    /\ \E ids \in ConcurrentArgLists :
       \E mopts \in [file_merger : FileMergers, strategy : ConcurrentStrategies] :
            other_call = [NoOtherCall EXCEPT !.commit_ids = ids, !.moptions = mopts,
                                             !.pc = "start"]
    /\ merge_lcas = <<>>
    /\ merge_base = NoCommit
    /\ vcommits = <<>>
    /\ tree_ids = [this |-> EmptyTree, other |-> EmptyTree, base |-> EmptyTree]
    /\ mrg_results = MergeResults
    /\ worktree = [files |-> <<>>, staged |-> <<>>, conflicts |-> <<>>]

\* the second call as it sees the object store and the clock
other_state ==
    [repo |-> repo, trees |-> trees, blobs |-> blobs, now |-> now,
     commit_ids |-> other_call.commit_ids, moptions |-> other_call.moptions,
     pc |-> other_call.pc, lcas |-> other_call.lcas,
     merge_base |-> other_call.merge_base, vcommits |-> other_call.vcommits,
     tree_ids |-> other_call.tree_ids, mrg_results |-> other_call.mrg_results,
     worktree |-> other_call.worktree]

OtherStepped(ms) ==
    /\ repo' = ms.repo
    /\ trees' = ms.trees
    /\ blobs' = ms.blobs
    /\ other_call' = [f \in DOMAIN other_call |-> ms[f]]
    /\ UNCHANGED <<merge_ids, moptions, now, mpc, merge_lcas, merge_base, vcommits,
                   tree_ids, mrg_results, worktree>>
    /\ UNCHANGED <<graph_vars, diff3_vars, filemerge_vars, entry_vars>>

\* a step of the second call of merge
OtherMergeStep ==
    /\ other_call.pc \in {"start", "walk", "write", "cleanup"}
    /\ OtherStepped(merge_step(other_state))

\* time.time() of do_commit: a second has passed
Tick ==
    /\ now < NumMergeCommits + 1 + MaxTicks
    /\ now' = now + 1
    /\ UNCHANGED <<repo, trees, blobs, merge_ids, moptions, mpc, merge_lcas, merge_base,
                   vcommits, tree_ids, mrg_results, worktree, other_call>>
    /\ UNCHANGED <<graph_vars, diff3_vars, filemerge_vars, entry_vars>>

ConcurrentNext ==
    MergeBegin \/ MergeWalk \/ MergeWrite \/ MergeCleanup \/ OtherMergeStep \/ Tick

ConcurrentSpec == ConcurrentInit /\ [][ConcurrentNext]_vars

(***************************************************************************)
(* Properties of the merge-base search.                                    *)
(***************************************************************************)
MergeBaseDone == pc = "done" /\ op = "find_merge_base" /\ Len(commit_ids) = 2

\* C1: every commit find_merge_base(repo, [c1, c2]) returns is reachable
\* through parent links from c1 and from c2.
C1_LcasAreCommonAncestors ==
    MergeBaseDone =>
        \A i \in 1..Len(lcas) :
            /\ IsAncestorOrSelf(parents, lcas[i], commit_ids[1])
            /\ IsAncestorOrSelf(parents, lcas[i], commit_ids[2])

C1_Witness ==
    /\ MergeBaseDone
    /\ Len(lcas) >= 2
    /\ \A i \in 1..Len(lcas) : lcas[i] \notin Range(commit_ids)
    /\ \E c \in Commits : parents[c] # <<>> /\ stamp[c] < stamp[parents[c][1]]

\* C2: no commit find_merge_base(repo, [c1, c2]) returns is a strict ancestor
\* of another commit of the same list, whatever the time stamps.
C2_NoLcaIsAncestorOfAnother ==
    MergeBaseDone =>
        \A i, j \in 1..Len(lcas) : ~IsStrictAncestor(parents, lcas[i], lcas[j])

\* C3: find_merge_base(repo, [c1, c2]) = [c1] exactly when c1 = c2 or c1 is
\* reachable from c2 through parent links.
C3_IsAncestorTest ==
    MergeBaseDone =>
        (lcas = <<commit_ids[1]>>
            <=> IsAncestorOrSelf(parents, commit_ids[1], commit_ids[2]))

\* C4: can_fast_forward(repo, c1, c2) is true exactly when c1 = c2 or c1 is
\* reachable from c2 through parent links, whatever the time stamps.
C4_CanFastForwardIsAncestry ==
    (pc = "done" /\ op = "can_fast_forward") =>
        (ff = "true" <=> IsAncestorOrSelf(parents, commit_ids[1], commit_ids[2]))

(***************************************************************************)
(* Properties of the diff3 file merge.                                     *)
(***************************************************************************)
\* a diff3 step wrote a chunk that is not a run of lines matched on both sides
UnstableChunkWritten ==
    /\ Len(chunks') = Len(chunks) + 1
    /\ branch' \in {"unstable", "final"}

IsConflictBlock(c) == c # <<>> /\ c[1] = "<<<<<<<<< alice"

\* C9: for an unstable chunk with base text oc, alice text ac and bob text bc
\* the merger writes oc when oc = ac = bc, bc when oc = ac # bc, ac when
\* oc = bc # ac and ac when ac = bc # oc, and records no conflict, under
\* every strategy.
C9_OneSidedChunksResolve ==
    [][UnstableChunkWritten =>
        LET oc == PySlice(o_lines, w_ranges'[1])
            ac == PySlice(a_lines, w_ranges'[2])
            bc == PySlice(b_lines, w_ranges'[3])
        IN /\ (oc = ac /\ oc = bc)
                => (chunks' = Append(chunks, oc) /\ conflicts' = conflicts)
           /\ (oc = ac /\ oc # bc)
                => (chunks' = Append(chunks, bc) /\ conflicts' = conflicts)
           /\ (oc = bc /\ oc # ac)
                => (chunks' = Append(chunks, ac) /\ conflicts' = conflicts)
           /\ (ac = bc /\ ac # oc)
                => (chunks' = Append(chunks, ac) /\ conflicts' = conflicts)]_vars

C9_Witness ==
    /\ branch = "unstable"
    /\ strategy = "ort-ours"
    /\ PySlice(o_lines, w_ranges[1]) = PySlice(a_lines, w_ranges[2])
    /\ PySlice(o_lines, w_ranges[1]) # PySlice(b_lines, w_ranges[3])
    /\ chunks[Len(chunks)] = PySlice(b_lines, w_ranges[3])
    /\ conflicts = <<>>

MarkerLines == {MarkAlice, MarkAncestor, MarkSeparator, MarkBob}

ChunkWritten == Len(chunks') = Len(chunks) + 1

\* C11: under ort-ours and resolve-ours (ort-theirs and resolve-theirs) the
\* conflict list stays empty, no marker line is written, and a chunk whose
\* base, alice and bob texts differ pairwise is written as alice's (bob's)
\* lines.
C11_OursTheirsResolveChunks ==
    [][(ChunkWritten /\ strategy \notin {"ort", "resolve"}) =>
        LET oc == PySlice(o_lines, w_ranges'[1])
            ac == PySlice(a_lines, w_ranges'[2])
            bc == PySlice(b_lines, w_ranges'[3])
            ours == strategy \in {"ort-ours", "resolve-ours"}
        IN /\ conflicts' = <<>>
           /\ \A k \in 1..Len(chunks') : Range(chunks'[k]) \cap MarkerLines = {}
           /\ (oc # ac /\ oc # bc /\ ac # bc)
                => chunks' = Append(chunks, IF ours THEN ac ELSE bc)]_vars

C11_Witness ==
    /\ strategy = "resolve-ours"
    /\ branch = "unstable"
    /\ PySlice(o_lines, w_ranges[1]) # PySlice(a_lines, w_ranges[2])
    /\ PySlice(o_lines, w_ranges[1]) # PySlice(b_lines, w_ranges[3])
    /\ PySlice(a_lines, w_ranges[2]) # PySlice(b_lines, w_ranges[3])
    /\ chunks[Len(chunks)] = PySlice(a_lines, w_ranges[2])
    /\ PySlice(a_lines, w_ranges[2]) # <<>>
    /\ conflicts = <<>>

\* a range (start, end) lying within a file of the given lines
RangeWithin(range, lines) == 0 <= range[1] /\ range[1] <= range[2] /\ range[2] <= Len(lines)

\* C12: every range recorded in the conflict list satisfies
\* 0 <= start <= end <= number of lines of its file, also when the conflict
\* lies in the last chunk of the files.
C12_ConflictRangesWithinFiles ==
    \A k \in 1..Len(conflicts) :
        /\ RangeWithin(conflicts[k][1], o_lines)
        /\ RangeWithin(conflicts[k][2], a_lines)
        /\ RangeWithin(conflicts[k][3], b_lines)

\* M maps line numbers of base to line numbers of side, grows strictly,
\* and pairs equal lines only
IsCorrespondence(M, base, side) ==
    /\ DOMAIN M \subseteq 1..Len(base)
    /\ \A i \in DOMAIN M : M[i] \in 1..Len(side) /\ base[i] = side[M[i]]
    /\ \A i, j \in DOMAIN M : i < j => M[i] < M[j]

\* C14: the correspondence built from a matcher's token stream has keys in
\* 1..len(base) and values in 1..len(side), is strictly increasing, and
\* satisfies base[i] = side[M(i)] for every i in its domain.
C14_MatchesAreCorrespondences ==
    /\ IsCorrespondence(a_matches, o_lines, a_lines)
    /\ IsCorrespondence(b_matches, o_lines, b_lines)

C14_Witness ==
    /\ Len(o_lines) = 2
    /\ DOMAIN a_matches = {1, 2} /\ a_matches[1] = 1 /\ a_matches[2] = 3
    /\ DOMAIN b_matches = {2} /\ b_matches[2] = 1 /\ Len(b_lines) = 2

\* C13: when the base handed to a file merge is empty and alice differs from
\* bob, the merge under ort or resolve records at least one conflict.
C13_EmptyBaseConflicts ==
    (/\ dpc = "returned"
     /\ fm_args.ancestor = <<>>
     /\ fm_args.alice # fm_args.bob
     /\ fm_args.strategy \in {"ort", "resolve"})
    => fm_result.conflict_list # <<>>

(***************************************************************************)
(* Properties of merge.                                                    *)
(***************************************************************************)
MergeOfTwoDone == mpc = "done" /\ Len(merge_ids) = 2

\* the paths at which two trees differ
ChangedPaths(tree1, tree2) == {p \in Paths : tree1[p] # tree2[p]}

\* C5: when the paths changed between base and this are disjoint from the
\* paths changed between base and other, merge reports no conflict and the
\* merged tree holds at every path other's entry if other added or modified
\* it, no entry if other deleted it, and this's entry otherwise.
C5_CleanMergePreserved ==
    (/\ MergeOfTwoDone
     /\ ChangedPaths(tree_ids.base, tree_ids.this)
            \cap ChangedPaths(tree_ids.base, tree_ids.other) = {})
    => /\ mrg_results.structure_conflicts = <<>>
       /\ mrg_results.chunk_conflicts = <<>>
       /\ mrg_results.tree_id =
            << [p \in Paths |-> IF tree_ids.other[p] # tree_ids.base[p]
                                THEN tree_ids.other[p] ELSE tree_ids.this[p]] >>

\* this and other both added a file at p, with different content
BothAdded(p) ==
    /\ tree_ids.base[p] = NoFile
    /\ tree_ids.this[p] # NoFile
    /\ tree_ids.other[p] # NoFile
    /\ tree_ids.this[p].sha # tree_ids.other[p].sha

\* C6: when this and other both add an entry at a path that base does not
\* hold, with different content, merge reports exactly one structural
\* conflict for that path and leaves tree_id unset.
C6_BothAddIsStructuralConflict ==
    MergeOfTwoDone =>
        \A p \in Paths :
            BothAdded(p) =>
                /\ Cardinality({k \in 1..Len(mrg_results.structure_conflicts) :
                        mrg_results.structure_conflicts[k].other_entry.path = p}) = 1
                /\ mrg_results.tree_id = <<>>

\* the state at the call of merge(repo, moptions, commit_ids)
merge_call(store, mopts, ids, clock) ==
    [repo |-> store,
     trees |-> {store[c].tree : c \in DOMAIN store},
     blobs |-> {store[c].tree[p].sha : c \in DOMAIN store, p \in Paths} \ {NoSha},
     commit_ids |-> ids, moptions |-> mopts, now |-> clock, pc |-> "start",
     lcas |-> <<>>, merge_base |-> NoCommit, vcommits |-> <<>>,
     tree_ids |-> [this |-> EmptyTree, other |-> EmptyTree, base |-> EmptyTree],
     mrg_results |-> MergeResults,
     worktree |-> [files |-> <<>>, staged |-> <<>>, conflicts |-> <<>>]]

\* C7: when merging A with B raises no chunk conflict, merge of [A, B] and
\* merge of [B, A] return the same tree_id.
C7_MergeCommutes ==
    MergeOfTwoDone =>
        LET other_way == merge_run(merge_call(repo, moptions, Reverse(merge_ids), now))
        IN (/\ mrg_results.chunk_conflicts = <<>>
            /\ other_way.mrg_results.chunk_conflicts = <<>>)
           => /\ other_way.pc = "done"
              /\ other_way.mrg_results.tree_id = mrg_results.tree_id

SelfMerge == Len(merge_ids) = 2 /\ merge_ids[1] = merge_ids[2]

\* C8: merging a commit A with itself returns a result without structural
\* conflict and without chunk conflict whose tree_id is the tree of A, and
\* makes no virtual commit.
C8_SelfMergeIsIdentity ==
    SelfMerge =>
        /\ mpc # "raised"
        /\ vcommits = <<>>
        /\ \A c \in DOMAIN repo : Len(c) = 1
        /\ mpc = "done" =>
            /\ mrg_results.structure_conflicts = <<>>
            /\ mrg_results.chunk_conflicts = <<>>
            /\ mrg_results.tree_id = <<repo[merge_ids[1]].tree>>

C8_Witness ==
    /\ SelfMerge
    /\ mpc = "done"
    /\ repo[merge_ids[1]].parents # <<>>
    /\ \A p \in Paths : repo[merge_ids[1]].tree[p] # NoFile
    /\ mrg_results.tree_id = <<repo[merge_ids[1]].tree>>

\* the conflicts of the given types among what merge_tree yielded, in order
RECURSIVE yielded_conflicts(_, _)
yielded_conflicts(yields, types) ==
    IF yields = <<>> THEN <<>>
    ELSE SelectSeq(Head(yields).conflicts, LAMBDA c : c.conflict_type \in types)
         \o yielded_conflicts(Tail(yields), types)

\* C15: a result returned by merge for two commits has tree_id set exactly
\* when its list of structural conflicts is empty; every structural and
\* every chunk conflict of the whole tree walk is in the result, and the
\* path of every chunk conflict is in the hand-merge set.
C15_TreeWrittenIffNoStructuralConflict ==
    MergeOfTwoDone =>
        LET yields == merge_tree(moptions, tree_ids.this, tree_ids.other, tree_ids.base)
        IN /\ (mrg_results.tree_id # <<>>) <=> (mrg_results.structure_conflicts = <<>>)
           /\ mrg_results.structure_conflicts = yielded_conflicts(yields, {"structure", "ni"})
           /\ mrg_results.chunk_conflicts = yielded_conflicts(yields, {"chunk"})
           /\ mrg_results.hand_merge_set =
                {mrg_results.chunk_conflicts[k].this_entry.path :
                    k \in 1..Len(mrg_results.chunk_conflicts)}

C15_Witness ==
    /\ MergeOfTwoDone
    /\ Len(mrg_results.chunk_conflicts) = 2
    /\ mrg_results.structure_conflicts = <<>>
    /\ mrg_results.tree_id # <<>>
    /\ mrg_results.hand_merge_set = Paths

\* this changed the content at p and other deleted p, or the other way round
ModifiedAndDeleted(p) ==
    /\ tree_ids.base[p] # NoFile
    /\ \/ /\ tree_ids.this[p] \notin {NoFile, tree_ids.base[p]}
          /\ tree_ids.other[p] = NoFile
       \/ /\ tree_ids.this[p] = NoFile
          /\ tree_ids.other[p] \notin {NoFile, tree_ids.base[p]}

\* C16: when one side modifies a path and the other side deletes it, the
\* walk yields no entry for that path and exactly one structural conflict
\* for it, and the result has no tree_id.
C16_ModifyDeleteIsStructuralConflict ==
    MergeOfTwoDone =>
        \A p \in Paths :
            ModifiedAndDeleted(p) =>
                /\ Cardinality({k \in 1..Len(mrg_results.structure_conflicts) :
                        mrg_results.structure_conflicts[k].base_entry.path = p}) = 1
                /\ \A k \in 1..Len(mrg_results.updated_tree_entries) :
                        mrg_results.updated_tree_entries[k].path # p
                /\ mrg_results.tree_id = <<>>

C16_Witness ==
    /\ MergeOfTwoDone
    /\ \A p \in Paths : ModifiedAndDeleted(p)
    /\ tree_ids.this["a"] = NoFile
    /\ tree_ids.other["b"] = NoFile
    /\ Len(mrg_results.structure_conflicts) = 2
    /\ mrg_results.tree_id = <<>>

\* _merge_entry was handed a binary blob, and this and other differ
BinaryEntriesDiffer ==
    /\ epc = "returned"
    /\ entry_args.moptions.file_merger # None
    /\ entry_args.this_entry.sha # entry_args.other_entry.sha
    /\ \/ is_binary(entry_args.this_entry.sha)
       \/ is_binary(entry_args.other_entry.sha)
       \/ is_binary(entry_args.base_entry.sha)

\* C17: when one of the three blobs is binary and this differs from other,
\* ort-ours and resolve-ours yield this's entry without conflict, ort-theirs
\* and resolve-theirs yield other's entry without conflict, and every other
\* strategy yields no entry and one structural conflict.
C17_BinaryFollowsStrategy ==
    BinaryEntriesDiffer =>
        LET strat == entry_args.moptions.strategy
        IN /\ ~entry_result.raised
           /\ strat \in {"ort-ours", "resolve-ours"}
                => /\ entry_result.entry = entry_args.this_entry
                   /\ entry_result.conflicts = <<>>
           /\ strat \in {"ort-theirs", "resolve-theirs"}
                => /\ entry_result.entry = entry_args.other_entry
                   /\ entry_result.conflicts = <<>>
           /\ strat \in {"ort", "resolve"}
                => /\ entry_result.entry = NO_ENTRY
                   /\ Len(entry_result.conflicts) = 1
                   /\ entry_result.conflicts[1].conflict_type = "structure"

\* C18: merge called with a list of commits whose length is not 2 returns a
\* result with exactly one structural conflict and no tree_id, and leaves
\* the object store as it was: no blob, tree or commit written or removed.
C18_NotTwoCommitsRejected ==
    [][(mpc = "start" /\ Len(merge_ids) # 2) =>
        /\ mpc' = "done"
        /\ Len(mrg_results'.structure_conflicts) = 1
        /\ mrg_results'.structure_conflicts[1].conflict_type = "structure"
        /\ mrg_results'.chunk_conflicts = <<>>
        /\ mrg_results'.updated_tree_entries = <<>>
        /\ mrg_results'.tree_id = <<>>
        /\ UNCHANGED <<repo, trees, blobs, vcommits, worktree>>]_vars

C18_Witness ==
    /\ mpc = "done"
    /\ Len(merge_ids) = 3
    /\ Len(mrg_results.structure_conflicts) = 1
    /\ mrg_results.tree_id = <<>>

\* the strategies merge.py and diff3merge.py name
KnownStrategies == Strategies \cup {"recursive"}

\* C19: merge called with a strategy that is none of ort, ort-ours,
\* ort-theirs, resolve, resolve-ours, resolve-theirs and recursive returns a
\* single structural conflict and no tree_id, and merges no tree and no file.
C19_UnknownStrategyRejected ==
    (/\ MergeOfTwoDone
     /\ moptions.strategy \notin KnownStrategies)
    => /\ Len(mrg_results.structure_conflicts) = 1
       /\ mrg_results.chunk_conflicts = <<>>
       /\ mrg_results.updated_tree_entries = <<>>
       /\ mrg_results.tree_id = <<>>


\* the commits of the store made by _create_virtual_tree_commit
VirtualCommits == {c \in DOMAIN repo : Len(c) > 1}

\* C20: when merge has returned, no virtual commit made during the call (the
\* commit of the empty tree, the merges of lowest common ancestors, those of
\* a nested synthesis that gave up) is left in the object store; until then
\* every virtual commit of the store is listed for removal
C20_VirtualCommitsRemoved ==
    /\ VirtualCommits \subseteq Range(vcommits)
    /\ mpc = "done" => VirtualCommits = {}

\* merge has returned after a nested synthesis made a virtual commit and the
\* synthesis then gave up, a common ancestor of the store being the base
C20_Witness ==
    /\ mpc = "done"
    /\ vcommits # <<>>
    /\ Len(merge_base) = 1
    /\ moptions.strategy \in {"ort", "ort-ours"}

\* C21: merge never fails for lack of a common ancestor, neither of the two
\* commits merged nor of two lowest common ancestors met during the synthesis
\* of a virtual base; when the two commits have none, the base is a virtual
\* commit of the empty tree
C21_EmptyBaseFallback ==
    /\ mpc # "raised"
    /\ (/\ mpc \in {"walk", "write", "cleanup"}
        /\ find_merge_base(repo, merge_ids) = <<>>)
       => /\ Len(merge_base) > 1
          /\ repo[merge_base].tree = EmptyTree

\* the base has been chosen and the two commits have several lowest common
\* ancestors
SeveralLcasMerged ==
    /\ mpc \in {"walk", "write", "cleanup"}
    /\ Len(merge_ids) = 2
    /\ Len(find_merge_base(repo, merge_ids)) > 1

\* C22: when the two commits have more than one lowest common ancestor, a
\* virtual base is made and used as the base of the merge exactly when the
\* strategy is one of ort, ort-ours, ort-theirs and recursive; with a resolve
\* strategy no virtual commit is made and the base is the first commit of the
\* list of lowest common ancestors
C22_VirtualBaseIffRecursive ==
    SeveralLcasMerged =>
        IF moptions.strategy \in {"ort", "ort-ours", "ort-theirs", "recursive"}
        THEN merge_base \in Range(vcommits)
        ELSE /\ vcommits = <<>>
             /\ merge_base = find_merge_base(repo, merge_ids)[1]

\* the lowest common ancestors of the two commits, as line 448 turns them
LcasTurned == Reverse(find_merge_base(repo, merge_ids))

\* c is the commit of the list bases of the greatest commit time
IsNewestLca(c, bases) ==
    /\ c \in Range(bases)
    /\ \A l \in Range(bases) : repo[l].commit_time <= repo[c].commit_time

\* the conflicts of type structure or ni of the one merge of the synthesis,
\* that of the trees of the two commits of the list bases on the tree of common
SynthesisGivesUp(bases, common) ==
    yielded_conflicts(
        merge_tree(moptions, repo[bases[1]].tree, repo[bases[2]].tree, repo[common].tree),
        {"structure", "ni"}) # <<>>

\* when the two commits of the list bases have one common ancestor themselves, the
\* synthesis is one merge of their trees on its tree
OnePairwiseMerge(bases, inner_bases) ==
    (Len(bases) = 2 /\ Len(inner_bases) = 1)
    => (merge_base \in Range(vcommits) <=> ~SynthesisGivesUp(bases, inner_bases[1]))

BaseAfterSynthesis(bases) ==
    Len(bases) > 1
    => /\ merge_base \in Range(vcommits) \/ IsNewestLca(merge_base, bases)
       /\ OnePairwiseMerge(bases, find_merge_base(repo, bases))

\* C23: in the synthesis of a virtual base a chunk conflict of a pairwise
\* merge of lowest common ancestors is let through, the merged tree with its
\* marked text becoming the virtual commit; a conflict of type structure or
\* ni gives the synthesis up, the merge then goes on with the lowest common
\* ancestor of the greatest commit time as base and does not raise
C23_SynthesisConflicts ==
    /\ (mpc = "walk" /\ Len(merge_ids) = 2
        /\ moptions.strategy \in {"ort", "ort-ours", "ort-theirs", "recursive"})
       => BaseAfterSynthesis(LcasTurned)
    /\ mpc = "raised" => merge_base = NoCommit

ChunkConflictLetThrough(bases, inner_bases) ==
    /\ Len(bases) = 2
    /\ Len(inner_bases) = 1
    /\ yielded_conflicts(
            merge_tree(moptions, repo[bases[1]].tree, repo[bases[2]].tree,
                       repo[inner_bases[1]].tree),
            {"chunk"}) # <<>>

\* the synthesis has let a chunk conflict through and the merge goes on with
\* the virtual commit
C23_WitnessChunk ==
    /\ mpc = "walk"
    /\ merge_base \in Range(vcommits)
    /\ ChunkConflictLetThrough(LcasTurned, find_merge_base(repo, LcasTurned))

OctopusDone == pc = "done" /\ op = "find_octopus_base"

\* C24: the list find_octopus_base returns for three or more commits names no
\* commit twice, and every commit of it is an ancestor of, or equal to, every
\* commit of the list given
C24_OctopusBase ==
    (OctopusDone /\ Len(commit_ids) >= 3)
    => /\ \A i, j \in 1..Len(lcas) : i # j => lcas[i] # lcas[j]
       /\ \A c \in Range(lcas) : \A d \in Range(commit_ids) :
            IsAncestorOrSelf(parents, c, d)

\* the iteration of the loop of _find_lcas has popped the i-th entry of the
\* work list: the others are left in their order, in front of the new ones
PoppedAt(i) ==
    /\ Len(wlst') >= Len(wlst) - 1
    /\ SubSeq(wlst', 1, Len(wlst) - 1) = RemoveAt(wlst, i)

\* C25: every iteration of the search pops an entry of the greatest commit
\* time of the work list and, among the entries of that commit time, the one
\* of the least commit id, wherever it stands in the list
C25_PopOrderByStampThenId ==
    [][(pc = "search" /\ pc' = "search")
       => \E i \in 1..Len(wlst) :
            /\ PoppedAt(i)
            /\ \A j \in 1..Len(wlst) :
                /\ wlst[j][1] <= wlst[i][1]
                /\ wlst[j][1] = wlst[i][1] => wlst[i][2] <= wlst[j][2]]_vars

\* the virtual commits a call at position p with the list vs still has to
\* read or to remove
StillNeeded(p, vs) == IF p \in {"walk", "write", "cleanup"} THEN Range(vs) ELSE {}

\* C26: two calls of merge interleaved on one object store never make a
\* virtual commit of the same id, so that every virtual commit a call has
\* made is in the object store until that call removes it
C26_VirtualCommitsPrivate ==
    /\ Range(vcommits) \cap Range(other_call.vcommits) = {}
    /\ StillNeeded(mpc, vcommits) \subseteq DOMAIN repo
    /\ StillNeeded(other_call.pc, other_call.vcommits) \subseteq DOMAIN repo

\* the flags of a commit that bar its being handed on again
AncestryFlags(cs, c) == cs[c] \cap {ANC_OF_1, ANC_OF_2, DNC}

\* the entries the iteration has appended to the work list
Appended == SubSeq(wlst', Len(wlst), Len(wlst'))

\* what is left to do: the entries of the work list and the flags that the
\* commits can still gain
SearchMeasure(wl, cs) ==
    Len(wl) + 3 * NumCommits
    - Cardinality({<<c, f>> \in Commits \X {ANC_OF_1, ANC_OF_2, DNC} : f \in cs[c]})

\* C27: the loop of _find_lcas ends.  Every iteration removes one entry of
\* the work list; a commit is appended only in an iteration that gives it a
\* flag among ANC_OF_1, ANC_OF_2 and DNC it did not have, and once at most
\* in one iteration; so the entries left and the flags not yet given become
\* fewer with every iteration, and the search returns
C27_SearchTerminates ==
    /\ [][(pc = "search" /\ pc' = "search")
          => /\ Len(wlst') >= Len(wlst) - 1
             /\ \E i \in 1..Len(wlst) : SubSeq(wlst', 1, Len(wlst) - 1) = RemoveAt(wlst, i)
             /\ \A k \in 1..Len(Appended) :
                    /\ AncestryFlags(cstates, Appended[k][2])
                            # AncestryFlags(cstates', Appended[k][2])
                    /\ \A n \in 1..Len(Appended) : Appended[n][2] = Appended[k][2] => n = k
             /\ SearchMeasure(wlst', cstates') < SearchMeasure(wlst, cstates)
             /\ SearchMeasure(wlst', cstates') >= 0]_vars
    /\ <>(pc = "done")

\* a search has returned after it gave some commit all three flags
C27_Witness ==
    /\ pc = "done"
    /\ op = "find_merge_base"
    /\ \E c \in Commits : AncestryFlags(cstates, c) = {ANC_OF_1, ANC_OF_2, DNC}
    /\ \E c \in Commits : stamp[c] # 0

\* C28: do_file_merge_ndiff, like do_file_merge_myers and
\* do_file_merge_histogram, builds the merge on the ancestor it was handed
\* when that ancestor is not empty; an ancestor is generated from alice and
\* bob only when none was handed
C28_SuppliedAncestorUsed ==
    (dpc \in {"walk", "done", "returned"} /\ fm_args.ancestor # <<>>)
    => o_lines = fm_args.ancestor

\* C29: when alice is the ancestor the merge returns bob, and when bob is the
\* ancestor it returns alice, with no conflict, under every strategy and for
\* every pair of correspondences a matcher may hand out
C29_OneSidedChange ==
    /\ (dpc = "done" /\ a_lines = o_lines)
       => Join(chunks) = b_lines /\ conflicts = <<>>
    /\ (dpc = "done" /\ b_lines = o_lines)
       => Join(chunks) = a_lines /\ conflicts = <<>>

\* the side is the ancestor and the matcher paired every line of it with itself
MatchedLineByLine(matches, side) ==
    /\ side = o_lines
    /\ DOMAIN matches = 1..Len(o_lines)
    /\ \A i \in DOMAIN matches : matches[i] = i

\* C29: when alice is the ancestor, matched with it line by line, the merge
\* returns bob, and when bob is the ancestor, matched with it line by line,
\* the merge returns alice, with no conflict, under every strategy and for
\* every correspondence a matcher may hand out for the other side
C29_OneSidedChangeMatched ==
    /\ (dpc = "done" /\ MatchedLineByLine(a_matches, a_lines))
       => Join(chunks) = b_lines /\ conflicts = <<>>
    /\ (dpc = "done" /\ MatchedLineByLine(b_matches, b_lines))
       => Join(chunks) = a_lines /\ conflicts = <<>>

\* the walk has ended for an alice that is the ancestor, matched line by
\* line, and a bob that differs from it and is matched on fewer lines than
\* the two have in common
C29_Witness ==
    /\ dpc = "done"
    /\ MatchedLineByLine(a_matches, a_lines)
    /\ o_lines = <<"x", "y">>
    /\ b_lines = <<"y", "x", "y">>
    /\ DOMAIN b_matches = {2} /\ b_matches[2] = 1
    /\ Len(chunks) > 1
    /\ strategy = "ort"

\* the three files of the merge, in the order of the cursor
WalkedFiles == <<o_lines, a_lines, b_lines>>

\* C30: the chunk walk ends; in every iteration no cursor goes back, an
\* iteration that does not write the last chunk moves some cursor forward,
\* every chunk starts where the chunk before it ended, the first at the start
\* of the files, and the last chunk reaches the end of the three files, so
\* that every line lies in exactly one chunk
C30_ChunkWalkTerminates ==
    /\ [][Diff3Next =>
             /\ \A k \in 1..3 : cursor'[k] >= cursor[k]
             /\ dpc' = "walk" => \E k \in 1..3 : cursor'[k] > cursor[k]
             /\ \A k \in 1..3 :
                    /\ w_ranges'[k][1] = w_ranges[k][2]
                    /\ w_ranges'[k][1] <= w_ranges'[k][2]
                    /\ dpc' = "walk" => w_ranges'[k][2] <= Len(WalkedFiles[k])
                    /\ dpc' = "done" => w_ranges'[k][2] >= Len(WalkedFiles[k])]_vars
    /\ <>(dpc = "done")

\* the walk has ended after four chunks or more, the cursors of alice and bob
\* apart from each other
C30_Witness ==
    /\ dpc = "done"
    /\ Len(chunks) >= 4
    /\ cursor[1] > 0
    /\ cursor[2] # cursor[3]
    /\ w_ranges[1][1] = cursor[1]
====
